---------------------------- MODULE Spec2Model ----------------------------
(***************************************************************************)
(* A model of the streaming core of the realtime / outspeed voice-agent    *)
(* framework: the broadcast Stream (realtime/streams.py), the interrupt    *)
(* (barge-in) watchers of the pipeline stages (realtime/plugins/*.py,      *)
(* outspeed/plugins/token_aggregator.py), the Silero VAD state machine     *)
(* (realtime/plugins/silero_vad.py), the stream operators (realtime/ops,   *)
(* outspeed/ops), the audio and video transport drivers                    *)
(* (realtime/streaming_endpoint/*RTCDriver.py), the input pumps, the text  *)
(* driver of the data channel (TextRTCDriver.py), the                      *)
(* signaling server with its connection counter (realtime/server.py,       *)
(* realtime/streaming_endpoint/server.py, realtime/websocket), the session *)
(* clock (realtime/utils/clock.py) and the processing tasks of the nodes   *)
(* (outspeed/nodes.py, the LLM and TTS plugins).                           *)
(*                                                                         *)
(* All tasks run on one asyncio event loop, so a task runs without         *)
(* interruption from one suspension point to the next; every action below  *)
(* is one such run of one task.                                            *)
(***************************************************************************)
EXTENDS Integers, Sequences, FiniteSets, TLC

(***************************************************************************)
(* Bounds of the model.                                                    *)
(***************************************************************************)
MaxStreams == 3
MaxPuts == 2
MaxIn == 2
MaxVad == 2
MaxChunks == 1
MaxFrames == 6
MaxThreshold == 5
MaxOpItems == 3
MaxItems == 2
MaxChunksPerItem == 3
MaxPts == 2
MaxTime == 8
MaxInbound == 3
MaxPeers == 2
MaxSockets == 1
MaxClock == 5
MaxReads == 3
MaxIncrements == 2
MaxNodeItems == 2
MaxRespChunks == 2
MaxIndex == 1
MaxTexts == 3
MaxMessages == 2

VARIABLES
    streams,    \* Stream objects by id: [queue, cache, clones]
    events,     \* ghost: events[i] is the stream the i-th put() was called on
    created,    \* ghost: created[c] = number of put() calls made before stream c existed
    parent,     \* ghost: parent[c] = the stream c was cloned from, 0 for an origin
    got         \* ghost: got[c] = items returned so far by get()/get_nowait() on c

streamVars == <<streams, events, created, parent, got>>

VARIABLES
    kind,       \* which stage class the stage is (see Kinds)
    sq,         \* the stage's streams: input, output, interrupt, AzureTTS._text_queue
    stage,      \* the stage object's fields and the positions of its tasks
    ghost       \* observations about the run, read by no step

stageVars == <<kind, sq, stage, ghost>>

VARIABLES
    vcfg,       \* SileroVAD configuration: min_speech and min_silence, in ticks
    vad,        \* SileroVAD fields: _vad_state, _prev_vad_state and the accumulators
    vout,       \* everything written to SileroVAD.output_queue, in order
    frames      \* ghost: for every frame analysed so far, whether it was speaking

vadVars == <<vcfg, vad, vout, frames>>

\* The operator under study, the kinds of its input streams, its input and
\* output streams, its tasks, and what was written to its inputs.
VARIABLES opk, okind, oq, op, olog
opVars == <<opk, okind, oq, op, olog>>

\* The clock, the audio driver's fields, the stream it empties, the frames
\* it holds ready for the peer connection, and a log of puts and deliveries.
VARIABLES now, drv, aq, dq, plog
pumpVars == <<now, drv, aq, dq, plog>>

\* The endpoints around the pipeline, each with a log of what happened to
\* it: an input pump, the signaling server with its connection counter, the
\* session clock, and a processing node with its input and output streams.
VARIABLES inp, srv, clk, node
extVars == <<inp, srv, clk, node>>

vars == <<streams, events, created, parent, got, kind, sq, stage, ghost,
          vcfg, vad, vout, frames, opk, okind, oq, op, olog,
          now, drv, aq, dq, plog, inp, srv, clk, node>>

(***************************************************************************)
(* Sequence helpers.                                                       *)
(***************************************************************************)
Range(q) == {q[i] : i \in 1..Len(q)}

RECURSIVE FilterSeq(_, _)
FilterSeq(q, keep) ==
    IF q = <<>> THEN <<>>
    ELSE IF Head(q) \in keep THEN <<Head(q)>> \o FilterSeq(Tail(q), keep)
    ELSE FilterSeq(Tail(q), keep)

(***************************************************************************)
(* realtime/streams.py: Stream                                             *)
(***************************************************************************)
\* Stream.__init__: an empty asyncio.Queue, no clones, an empty cache.
NewStream == [queue |-> <<>>, cache |-> <<>>, clones |-> <<>>]

\* Stream.put_nowait: append to the own queue, then put_nowait on every clone
\* in registration order (each clone fans out to its own clones in turn).
RECURSIVE PutNowait(_, _, _)
RECURSIVE PutNowaitClones(_, _, _)
PutNowait(st, s, item) ==
    PutNowaitClones([st EXCEPT ![s].queue = Append(@, item)], st[s].clones, item)

PutNowaitClones(st, cl, item) ==
    IF cl = <<>> THEN st
    ELSE PutNowaitClones(PutNowait(st, Head(cl), item), Tail(cl), item)

\* asyncio.Queue.empty(), which Stream does not override: looks at the
\* underlying deque only, not at the cache.
Empty(st, s) == st[s].queue = <<>>

\* Stream.qsize: underlying queue plus cache.
QSize(st, s) == Len(st[s].queue) + Len(st[s].cache)

\* A get_nowait that returns the head of the underlying queue even when the
\* cache holds an older item.
GetNowaitValueSkipsCache(st, s) ==
    IF st[s].queue # <<>> THEN Head(st[s].queue) ELSE Head(st[s].cache)

\* The value Stream.get_nowait returns: the cache head when the cache is
\* non-empty, else the head of the underlying queue.
GetNowaitValue(st, s) ==
    IF st[s].cache # <<>> THEN Head(st[s].cache) ELSE Head(st[s].queue)

\* A get_nowait that pops the item from every stream holding it.
GetNowaitFromAll(st, s) ==
    LET v == GetNowaitValue(st, s)
    IN [c \in DOMAIN st |->
          [st[c] EXCEPT !.queue = FilterSeq(@, Range(@) \ {v}),
                        !.cache = FilterSeq(@, Range(@) \ {v})]]

\* Stream.get_nowait: the state after the call.
GetNowait(st, s) ==
    IF st[s].cache # <<>> THEN [st EXCEPT ![s].cache = Tail(@)]
    ELSE [st EXCEPT ![s].queue = Tail(@)]

\* A clone that starts with a copy of the origin's pending items.
CloneWithBacklog(st, s) ==
    Append([st EXCEPT ![s].clones = Append(@, Len(st) + 1)],
           [NewStream EXCEPT !.queue = st[s].cache \o st[s].queue])

\* TextStream.clone (and the other kinds): a fresh empty stream, registered
\* in the origin's clone list.  The new stream gets the next free id.
Clone(st, s) ==
    Append([st EXCEPT ![s].clones = Append(@, Len(st) + 1)], NewStream)

\* Stream.get_first_element_without_removing: the state after the call.
PeekFirst(st, s) ==
    IF st[s].cache # <<>> \/ st[s].queue = <<>> THEN st
    ELSE [st EXCEPT ![s].cache = Append(@, Head(st[s].queue)),
                    ![s].queue = Tail(@)]

Ids == 1..Len(streams)

(***************************************************************************)
(* Stream operations as steps of the tasks that call them.                 *)
(***************************************************************************)
StreamInit ==
    /\ streams = <<NewStream>>
    /\ events = <<>>
    /\ created = <<0>>
    /\ parent = <<0>>
    /\ got = << <<>> >>

\* await s.put(item) / s.put_nowait(item); the item is identified by the
\* number of the put() call.
StreamPut(s) ==
    /\ Len(events) < MaxPuts
    /\ streams' = PutNowait(streams, s, Len(events) + 1)
    /\ events' = Append(events, s)
    /\ UNCHANGED <<created, parent, got>>

\* c = s.clone()
StreamClone(s) ==
    /\ Len(streams) < MaxStreams
    /\ streams' = Clone(streams, s)
    /\ created' = Append(created, Len(events))
    /\ parent' = Append(parent, s)
    /\ got' = Append(got, <<>>)
    /\ UNCHANGED events

\* await s.get(): asyncio.Queue.get waits while self.empty(), then returns
\* self.get_nowait().
StreamGet(s) ==
    /\ ~Empty(streams, s)
    /\ got' = [got EXCEPT ![s] = Append(@, GetNowaitValue(streams, s))]
    /\ streams' = GetNowait(streams, s)
    /\ UNCHANGED <<events, created, parent>>

\* s.get_nowait(); raises QueueEmpty (no state change) when nothing is held.
StreamGetNowait(s) ==
    /\ QSize(streams, s) > 0
    /\ got' = [got EXCEPT ![s] = Append(@, GetNowaitValue(streams, s))]
    /\ streams' = GetNowait(streams, s)
    /\ UNCHANGED <<events, created, parent>>

\* s.get_first_element_without_removing()
StreamPeek(s) ==
    /\ streams[s].cache = <<>>
    /\ streams[s].queue # <<>>
    /\ streams' = PeekFirst(streams, s)
    /\ UNCHANGED <<events, created, parent, got>>

StreamNext ==
    /\ \E s \in Ids :
          \/ StreamPut(s)
          \/ StreamClone(s)
          \/ StreamGet(s)
          \/ StreamGetNowait(s)
          \/ StreamPeek(s)
    /\ UNCHANGED <<stageVars, vadVars, opVars, pumpVars, extVars>>

\* Stream.get_element_at_index: the underlying queue is emptied into the
\* cache until the cache reaches past index or the queue is empty; the
\* element at index is then popped from the cache.  MoveToCache is the
\* state after the while loop, ElementAt the value returned (0 for None),
\* GetElementAt the state after the call.
RECURSIVE MoveToCache(_, _)
MoveToCache(x, index) ==
    IF Len(x.cache) <= index /\ Len(x.queue) > 0
    THEN MoveToCache([x EXCEPT !.cache = Append(@, Head(x.queue)), !.queue = Tail(@)], index)
    ELSE x

ElementAt(st, s, index) ==
    LET x == MoveToCache(st[s], index)
    IN IF index < Len(x.cache) THEN x.cache[index + 1] ELSE 0

GetElementAt(st, s, index) ==
    LET x == MoveToCache(st[s], index)
    IN IF index < Len(x.cache)
       THEN [st EXCEPT ![s] = [x EXCEPT !.cache = SubSeq(@, 1, index)
                                                    \o SubSeq(@, index + 2, Len(@))]]
       ELSE [st EXCEPT ![s] = x]

\* s.get_element_at_index(index)
StreamElementAt(s, index) ==
    /\ streams' = GetElementAt(streams, s, index)
    /\ streams' # streams
    /\ UNCHANGED <<events, created, parent, got>>
    /\ UNCHANGED <<stageVars, vadVars, opVars, pumpVars, extVars>>

(***************************************************************************)
(* Interruptible stages.  One stage object with its input stream, its      *)
(* output stream and the VAD stream it was given as interrupt stream.      *)
(***************************************************************************)
Kinds == {"fireworks", "aggregator", "aggregator_os", "elevenlabs", "azure", "cartesia"}

\* Positions of the stage's streams in sq.
In == 1
Out == 2
Irq == 3
Txt == 4

\* realtime/utils/vad.py
VADStates == {"QUIET", "STARTING", "SPEAKING", "STOPPING"}

\* Python truth value of an interrupt-queue item: every member of the
\* VADState Enum is truthy.
Truthy(v) == v \in VADStates

\* A character of a token is 2 * (id of the token) + (1 when the character is
\* one of SENTENCE_ENDINGS, else 0).
IsEnding(ch) == ch % 2 = 1
CharSource(ch) == ch \div 2

\* The token texts the upstream stage may write to a TokenAggregator: four
\* plain characters; a ten character sentence followed by one more character;
\* a sentence ending followed by one more character.
TokenPatterns == {<<0, 0, 0, 0>>, <<0, 0, 0, 0, 0, 0, 0, 0, 0, 1, 0>>, <<1, 0>>}

MinChunkLen == 10

TextItem(n, pattern) ==
    [k |-> "text", id |-> n, body |-> [i \in 1..Len(pattern) |-> 2 * n + pattern[i]]]
NoneItem == [k |-> "none", id |-> 0, body |-> <<>>]
SessionItem(n) == [k |-> "session", id |-> n, body |-> <<>>]
\* What a stage writes for input item n (an LLM token, a piece of audio).
OutItem(n) == [k |-> "out", id |-> n, body |-> <<>>]
\* What a TokenAggregator writes: a piece of its buffer.
ChunkItem(text) == [k |-> "out", id |-> 0, body |-> text]

\* The input items an output item was made from.
Sources(x) ==
    IF x.k # "out" THEN {}
    ELSE IF x.body = <<>> THEN {x.id}
    ELSE {CharSource(x.body[i]) : i \in 1..Len(x.body)}

RECURSIVE PutSeq(_, _, _)
PutSeq(st, s, items) ==
    IF items = <<>> THEN st
    ELSE PutSeq(PutNowait(st, s, Head(items)), s, Tail(items))

\* while not q.empty(): q.get_nowait()
RECURSIVE Drain(_, _)
Drain(st, s) == IF Empty(st, s) THEN st ELSE Drain(GetNowait(st, s), s)

\* The items that loop throws away.
RECURSIVE Drained(_, _)
Drained(st, s) ==
    IF Empty(st, s) THEN <<>>
    ELSE <<GetNowaitValue(st, s)>> \o Drained(GetNowait(st, s), s)

\* max(buffer.rfind(ending) ...) + 1: the position of the last sentence
\* ending in the buffer, 0 when there is none.
LastEnding(text) ==
    LET ends == {i \in 1..Len(text) : IsEnding(text[i])}
    IN IF ends = {} THEN 0 ELSE CHOOSE i \in ends : \A j \in ends : j <= i

(***************************************************************************)
(* One pass of a generation loop: from the get() that returned item x to   *)
(* the next suspension point.  The result is the stage afterwards, the     *)
(* items written to the output stream and the messages sent to the         *)
(* provider.                                                               *)
(***************************************************************************)
Pass(s, out) == [stage |-> s, out |-> out]

\* FireworksLLM._stream_chat_completions, up to the await of
\* chat.completions.create.
FireworksBody(s, x) ==
    CASE x.k = "none" -> Pass(s, <<>>)
      [] x.k = "session" -> Pass(s, <<x>>)
      [] OTHER ->
            Pass([s EXCEPT !.generating = TRUE,
                           !.chat = Append(@, [role |-> "user", id |-> x.id]),
                           !.genpc = "busy", !.cur = x.id, !.nchunk = 0],
                 <<>>)

\* The text branch of TokenAggregator._aggregate_tokens.
AggregateText(s, x) ==
    LET text == s.buffer \o x.body
        e == LastEnding(text)
    IN IF e # 0 /\ e >= MinChunkLen
       THEN Pass([s EXCEPT !.buffer = SubSeq(text, e + 1, Len(text))],
                 <<ChunkItem(SubSeq(text, 1, e))>>)
       ELSE Pass([s EXCEPT !.buffer = text], <<>>)

\* The None branch of TokenAggregator._aggregate_tokens.
AggregateFlush(s) ==
    IF s.buffer # <<>>
    THEN Pass([s EXCEPT !.buffer = <<>>], <<ChunkItem(s.buffer), NoneItem>>)
    ELSE Pass(s, <<NoneItem>>)

\* realtime TokenAggregator._aggregate_tokens
AggregatorBody(s, x) ==
    CASE x.k = "none" -> AggregateFlush(s)
      [] x.k = "session" -> Pass(s, <<x>>)
      [] OTHER -> AggregateText(s, x)

\* outspeed TokenAggregator._aggregate_tokens: no SessionData branch, so
\* buffer += token raises TypeError and the task ends.
AggregatorOsBody(s, x) ==
    CASE x.k = "none" -> AggregateFlush(s)
      [] x.k = "session" -> Pass([s EXCEPT !.genpc = "done"], <<>>)
      [] OTHER -> AggregateText(s, x)

\* realtime ElevenLabsTTS.synthesize_speech up to the await of session.post.
\* A SessionData is truthy and not JSON serializable: the post raises, the
\* except branch resets _generating and the task returns.
ElevenLabsBody(s, x) ==
    CASE x.k = "none" -> Pass(s, <<>>)
      [] x.k = "session" -> Pass([s EXCEPT !.generating = FALSE, !.genpc = "done"], <<>>)
      [] OTHER ->
            Pass([s EXCEPT !.generating = TRUE, !.genpc = "busy",
                           !.cur = x.id, !.nchunk = 0],
                 <<>>)

\* AzureTTS.synthesize_speech up to the first await of the synthesizer.
AzureBody(s, x) ==
    CASE x.k = "none" -> Pass(s, <<>>)
      [] OTHER ->
            Pass([s EXCEPT !.generating = TRUE, !.genpc = "busy",
                           !.cur = x.id, !.nchunk = 0],
                 <<>>)

\* CartesiaTTS.synthesize_speech.send_text.  The service answers a transcript
\* with a chunk of audio for its context and the closing payload with "done";
\* the answers wait in wsIn until receive_audio takes them.
CartesiaBody(s, x) ==
    CASE x.k = "session" -> Pass(s, <<x>>)
      [] x.k = "none" ->
            IF s.textCtx = 0 THEN Pass(s, <<>>)
            ELSE Pass([s EXCEPT !.wsIn = Append(@, [type |-> "done", ctx |-> s.textCtx, id |-> 0]),
                                !.textCtx = 0],
                      <<>>)
      [] OTHER ->
            LET fresh == s.textCtx = 0
                ctx == IF fresh THEN s.ctxN + 1 ELSE s.textCtx
            IN Pass([s EXCEPT !.ctxN = IF fresh THEN @ + 1 ELSE @,
                              !.textCtx = ctx,
                              !.audioCtx = IF fresh THEN ctx ELSE @,
                              !.generating = TRUE,
                              !.wsIn = Append(@, [type |-> "chunk", ctx |-> ctx, id |-> x.id])],
                    <<>>)

Body(s, x) ==
    CASE kind = "fireworks" -> FireworksBody(s, x)
      [] kind = "aggregator" -> AggregatorBody(s, x)
      [] kind = "aggregator_os" -> AggregatorOsBody(s, x)
      [] kind = "elevenlabs" -> ElevenLabsBody(s, x)
      [] kind = "azure" -> AzureBody(s, x)
      [] kind = "cartesia" -> CartesiaBody(s, x)

\* The stream the generation task reads: AzureTTS.synthesize_speech reads
\* _text_queue, every other stage its input stream.
GenSource == IF kind = "azure" THEN Txt ELSE In

\* The stage is in the middle of a turn: a provider call is in flight, or
\* the aggregator holds a partial sentence.
MidGen ==
    \/ stage.genpc = "busy"
    \/ kind = "cartesia" /\ stage.generating
    \/ kind \in {"aggregator", "aggregator_os"} /\ stage.buffer # <<>>

Awaits == {"fireworks", "aggregator", "cartesia"}

(***************************************************************************)
(* The stage after run(input_queue) and set_interrupt_stream(vad_stream).  *)
(***************************************************************************)
NoNote == [sig |-> "none", midgen |-> FALSE, inNE |-> FALSE, outNE |-> FALSE, late |-> FALSE]

StageInit ==
    /\ kind \in Kinds
    /\ sq = <<NewStream, NewStream, NewStream, NewStream>>
    /\ stage = [genpc |-> "get", cur |-> 0, nchunk |-> 0, generating |-> FALSE,
                buffer |-> <<>>, cancelReq |-> FALSE, dying |-> 0,
                fwdpc |-> IF kind = "azure" THEN "get" ELSE "none",
                wpc |-> "wait", textCtx |-> 0, audioCtx |-> 0, ctxN |-> 0,
                wsIn |-> <<>>, chat |-> <<>>]
    /\ ghost = [nin |-> 0, nvad |-> 0, ev |-> "init", wnote |-> NoNote,
                wlog |-> <<>>, discarded |-> <<>>, outlog |-> <<>>,
                handled |-> FALSE, late |-> {}, old |-> {}]

\* The upstream stage writes an item to the input stream.  Session markers
\* are not written to AzureTTS, whose reaction to one is decided inside the
\* Azure SDK.
InputItems(n) ==
    {NoneItem}
    \cup (IF kind = "azure" THEN {} ELSE {SessionItem(n)})
    \cup (IF kind \in {"aggregator", "aggregator_os"}
          THEN {TextItem(n, p) : p \in TokenPatterns}
          ELSE {TextItem(n, <<>>)})

Upstream ==
    /\ ghost.nin < MaxIn
    /\ \E x \in InputItems(ghost.nin + 1) :
          /\ sq' = PutNowait(sq, In, x)
          /\ ghost' = [ghost EXCEPT !.nin = @ + 1, !.ev = "upstream",
                                    !.wnote.late = @ \/ stage.wpc = "await",
                                    !.late = IF ghost.handled /\ x.k = "text"
                                             THEN @ \cup {x.id} ELSE @]
    /\ UNCHANGED <<kind, stage, streamVars, vadVars, opVars, pumpVars, extVars>>

\* The downstream stage takes an item from the output stream.
Downstream ==
    /\ ~Empty(sq, Out)
    /\ sq' = GetNowait(sq, Out)
    /\ ghost' = [ghost EXCEPT !.ev = "downstream"]
    /\ UNCHANGED <<kind, stage, streamVars, vadVars, opVars, pumpVars, extVars>>

\* SileroVAD writes a state to the stage's interrupt stream.
VadSignal ==
    /\ ghost.nvad < MaxVad
    /\ \E v \in VADStates :
          /\ sq' = PutNowait(sq, Irq, v)
          /\ ghost' = [ghost EXCEPT !.nvad = @ + 1, !.ev = "vad"]
    /\ UNCHANGED <<kind, stage, streamVars, vadVars, opVars, pumpVars, extVars>>

\* The generation task's get() returns an item and the loop runs to its next
\* suspension point.
GenTake ==
    /\ stage.genpc = "get"
    /\ ~stage.cancelReq
    /\ ~Empty(sq, GenSource)
    /\ LET r == Body(stage, GetNowaitValue(sq, GenSource))
       IN /\ sq' = PutSeq(GetNowait(sq, GenSource), Out, r.out)
          /\ stage' = r.stage
          /\ ghost' = [ghost EXCEPT !.ev = "take", !.outlog = @ \o r.out]
    /\ UNCHANGED <<kind, streamVars, vadVars, opVars, pumpVars, extVars>>

\* The provider returns a piece of the answer and the task writes it out
\* (FireworksLLM: async for chunk in chunk_stream; ElevenLabsTTS: async for
\* chunk in r.content; AzureTTS._stream_synthesis).
GenChunk ==
    /\ stage.genpc = "busy"
    /\ ~stage.cancelReq
    /\ stage.nchunk < MaxChunks
    /\ sq' = PutNowait(sq, Out, OutItem(stage.cur))
    /\ stage' = [stage EXCEPT !.nchunk = @ + 1]
    /\ ghost' = [ghost EXCEPT !.ev = "chunk", !.outlog = Append(@, OutItem(stage.cur))]
    /\ UNCHANGED <<kind, streamVars, vadVars, opVars, pumpVars, extVars>>

\* The provider's answer ends: the task resets _generating, writes None and
\* goes back to its get().
GenFinish ==
    /\ stage.genpc = "busy"
    /\ ~stage.cancelReq
    /\ stage.nchunk >= 1
    /\ sq' = PutNowait(sq, Out, NoneItem)
    /\ stage' = [stage EXCEPT !.genpc = "get", !.generating = FALSE, !.cur = 0,
                              !.nchunk = 0,
                              !.chat = IF kind = "fireworks"
                                       THEN Append(@, [role |-> "assistant", id |-> stage.cur])
                                       ELSE @]
    /\ ghost' = [ghost EXCEPT !.ev = "finish", !.outlog = Append(@, NoneItem)]
    /\ UNCHANGED <<kind, streamVars, vadVars, opVars, pumpVars, extVars>>

\* CartesiaTTS.synthesize_speech.receive_audio takes one response.
RecvAudio ==
    /\ kind = "cartesia"
    /\ stage.genpc # "done"
    /\ ~stage.cancelReq
    /\ stage.wsIn # <<>>
    /\ LET m == Head(stage.wsIn)
           out == CASE m.type = "chunk" /\ m.ctx # stage.audioCtx -> <<>>
                    [] m.type = "chunk" /\ m.ctx = stage.audioCtx -> <<OutItem(m.id)>>
                    [] OTHER -> <<NoneItem>>
       IN /\ sq' = PutSeq(sq, Out, out)
          /\ stage' = [stage EXCEPT !.wsIn = Tail(@),
                                    !.generating = IF m.type = "done" THEN FALSE ELSE @]
          /\ ghost' = [ghost EXCEPT !.ev = "recv", !.outlog = @ \o out]
    /\ UNCHANGED <<kind, streamVars, vadVars, opVars, pumpVars, extVars>>

\* AzureTTS._process_text: forwards an input item to _text_queue, unless the
\* stage is generating, in which case the item is dropped.
FwdTake ==
    /\ stage.fwdpc = "get"
    /\ ~Empty(sq, In)
    /\ sq' = IF stage.generating THEN GetNowait(sq, In)
             ELSE PutNowait(GetNowait(sq, In), Txt, GetNowaitValue(sq, In))
    /\ ghost' = [ghost EXCEPT !.ev = "forward"]
    /\ UNCHANGED <<kind, stage, streamVars, vadVars, opVars, pumpVars, extVars>>

\* CancelledError is thrown into the task the watcher is awaiting.  Only
\* CartesiaTTS.synthesize_speech catches it (and resets its fields); in the
\* others it passes the "except Exception" clauses and ends the task.
GenCancelled ==
    /\ stage.cancelReq
    /\ stage' = [stage EXCEPT !.cancelReq = FALSE, !.genpc = "done",
                              !.generating = IF kind = "cartesia" THEN FALSE ELSE @,
                              !.textCtx = IF kind = "cartesia" THEN 0 ELSE @,
                              !.audioCtx = IF kind = "cartesia" THEN 0 ELSE @]
    /\ ghost' = [ghost EXCEPT !.ev = "cancelled", !.wlog = Append(@, "terminated")]
    /\ UNCHANGED <<kind, sq, streamVars, vadVars, opVars, pumpVars, extVars>>

\* A task that was cancelled without being awaited gets its CancelledError.
OldTaskEnds ==
    /\ stage.dying > 0
    /\ stage' = [stage EXCEPT !.dying = @ - 1]
    /\ ghost' = [ghost EXCEPT !.ev = "oldtask", !.wlog = Append(@, "terminated")]
    /\ UNCHANGED <<kind, sq, streamVars, vadVars, opVars, pumpVars, extVars>>

(***************************************************************************)
(* The watcher task: _interrupt.                                           *)
(***************************************************************************)
\* The condition under which _interrupt acts on the item v it took from the
\* interrupt stream.
Trigger(v) ==
    CASE kind \in {"fireworks", "aggregator", "cartesia"} ->
            v = "SPEAKING" /\ (~Empty(sq, In) \/ ~Empty(sq, Out))
      [] kind = "aggregator_os" -> Truthy(v) /\ ~Empty(sq, Out)
      [] kind \in {"elevenlabs", "azure"} -> stage.generating /\ Truthy(v)

\* The input items the generation task has taken so far: those written
\* that are neither waiting in the input stream nor thrown away by a drain.
TakenIds ==
    {n \in 1..ghost.nin :
        /\ \A i \in 1..Len(sq[In].queue) : sq[In].queue[i].id # n
        /\ \A i \in 1..Len(ghost.discarded) :
              ~(ghost.discarded[i].k \in {"text", "session"} /\ ghost.discarded[i].id = n)}

\* The watcher's get() returns a VAD state.  FireworksLLM, the realtime
\* TokenAggregator and CartesiaTTS cancel the task and suspend in
\* "await self._task"; the outspeed TokenAggregator, the realtime
\* ElevenLabsTTS and AzureTTS cancel, drain the output stream and restart
\* without suspending.
WatcherTake ==
    /\ stage.wpc = "wait"
    /\ ~Empty(sq, Irq)
    /\ LET v == GetNowaitValue(sq, Irq)
           q1 == GetNowait(sq, Irq)
           s1 == IF kind = "cartesia"
                 THEN [stage EXCEPT !.audioCtx = 0, !.textCtx = 0]
                 ELSE stage
           note == [sig |-> v, midgen |-> MidGen, inNE |-> ~Empty(sq, In),
                    outNE |-> ~Empty(sq, Out), late |-> FALSE]
           clear == IF kind \in {"aggregator", "aggregator_os"}
                    THEN <<"clear_buffer">> ELSE <<>>
           old == IF kind = "aggregator" /\ v = "SPEAKING" THEN TakenIds ELSE ghost.old
       IN IF ~Trigger(v)
          THEN /\ sq' = q1
               /\ stage' = s1
               /\ ghost' = [ghost EXCEPT !.ev = "ignored", !.wnote = note, !.old = old]
          ELSE IF kind \in Awaits
          THEN /\ sq' = q1
               /\ stage' = [s1 EXCEPT !.buffer = <<>>,
                                      !.cancelReq = (stage.genpc # "done"),
                                      !.wpc = "await"]
               /\ ghost' = [ghost EXCEPT
                               !.ev = "cancelling", !.wnote = note, !.old = old,
                               !.wlog = clear \o <<"cancel">> \o
                                        (IF stage.genpc = "done"
                                         THEN <<"terminated">> ELSE <<>>)]
          ELSE /\ sq' = Drain(q1, Out)
               /\ stage' = [s1 EXCEPT
                               !.buffer = <<>>,
                               !.dying = @ + (IF stage.genpc # "done" THEN 1 ELSE 0)
                                           + (IF stage.fwdpc = "get" THEN 1 ELSE 0),
                               !.fwdpc = IF @ = "get" THEN "done" ELSE @,
                               !.genpc = "get", !.cur = 0, !.nchunk = 0,
                               !.generating = IF kind = "aggregator_os" THEN @ ELSE FALSE]
               /\ ghost' = [ghost EXCEPT
                               !.ev = "handled", !.wnote = note,
                               !.wlog = clear \o <<"cancel", "drain_out", "restart">>,
                               !.discarded = @ \o Drained(q1, Out),
                               !.handled = TRUE]
    /\ UNCHANGED <<kind, streamVars, vadVars, opVars, pumpVars, extVars>>

\* "await self._task" returns: the watcher drains the output stream, then
\* the input stream, and creates the new generation task.
WatcherResume ==
    /\ stage.wpc = "await"
    /\ stage.genpc = "done"
    /\ LET q1 == Drain(sq, Out)
       IN /\ sq' = Drain(q1, In)
          /\ ghost' = [ghost EXCEPT
                          !.ev = "handled",
                          !.wlog = @ \o <<"drain_out", "drain_in", "restart">>,
                          !.discarded = @ \o Drained(sq, Out) \o Drained(q1, In),
                          !.handled = TRUE]
    /\ stage' = [stage EXCEPT !.wpc = "wait", !.genpc = "get", !.cur = 0, !.nchunk = 0,
                              !.generating = IF kind \in {"fireworks", "cartesia"}
                                             THEN FALSE ELSE @]
    /\ UNCHANGED <<kind, streamVars, vadVars, opVars, pumpVars, extVars>>

(***************************************************************************)
(* realtime/plugins/silero_vad.py: SileroVAD.  Durations are counted in    *)
(* ticks of 16 ms; a frame (256 samples at 8 kHz, 512 at 16 kHz) lasts     *)
(* 32 ms whatever the sample rate.                                         *)
(***************************************************************************)
\* SileroVAD._get_speech_duration_seconds of one frame, in ticks.
FrameDur == 2

\* SileroVAD.__init__
VadNew == [state |-> "QUIET", prev |-> "QUIET", speech |-> 0, silence |-> 0]

\* An execute_vad that forgets to reset the silence accumulator on entering
\* SPEAKING.
ExecuteFrameKeepSilence(cfg, v, speaking) ==
    LET s1 == IF speaking
              THEN [v EXCEPT !.state = IF @ \in {"QUIET", "STOPPING"} THEN "STARTING" ELSE @,
                             !.speech = @ + FrameDur]
              ELSE [v EXCEPT !.state = IF @ \in {"STARTING", "SPEAKING"} THEN "STOPPING" ELSE @,
                             !.silence = @ + FrameDur]
        s2 == IF s1.state = "STARTING" /\ s1.speech >= cfg.minSpeech
              THEN [s1 EXCEPT !.state = "SPEAKING", !.speech = 0]
              ELSE IF s1.state = "STOPPING" /\ s1.silence >= cfg.minSilence
              THEN [s1 EXCEPT !.state = "QUIET", !.silence = 0, !.speech = 0]
              ELSE s1
    IN [s2 EXCEPT !.prev = s2.state]

\* The body of the frame loop of SileroVAD.execute_vad, for one frame.
ExecuteFrame(cfg, v, speaking) ==
    LET s1 == IF speaking
              THEN [v EXCEPT !.state = IF @ \in {"QUIET", "STOPPING"} THEN "STARTING" ELSE @,
                             !.speech = @ + FrameDur]
              ELSE [v EXCEPT !.state = IF @ \in {"STARTING", "SPEAKING"} THEN "STOPPING" ELSE @,
                             !.silence = @ + FrameDur]
        s2 == IF s1.state = "STARTING" /\ s1.speech >= cfg.minSpeech
              THEN [s1 EXCEPT !.state = "SPEAKING", !.speech = 0, !.silence = 0]
              ELSE IF s1.state = "STOPPING" /\ s1.silence >= cfg.minSilence
              THEN [s1 EXCEPT !.state = "QUIET", !.silence = 0, !.speech = 0]
              ELSE s1
    IN [s2 EXCEPT !.prev = s2.state]

\* run(): execute_vad starts by writing the initial state.
VadInit ==
    /\ vcfg \in [minSpeech : 0..MaxThreshold, minSilence : 0..MaxThreshold]
    /\ vad = VadNew
    /\ vout = <<"QUIET">>
    /\ frames = <<>>

\* An execute_vad that writes the state after every frame, changed or not.
VadFrameWritesEveryFrame ==
    /\ Len(frames) < MaxFrames
    /\ \E confident, loud \in BOOLEAN :
          LET speaking == confident /\ loud
              next == ExecuteFrame(vcfg, vad, speaking)
          IN /\ vad' = next
             /\ vout' = Append(vout, next.state)
             /\ frames' = Append(frames, speaking)
    /\ UNCHANGED <<vcfg, streamVars, stageVars, opVars, pumpVars, extVars>>

\* execute_vad analyses one frame: speaking is "confidence >= activation
\* threshold and smoothed volume >= min_volume"; the state is written to the
\* output stream when it differs from the state written last.
VadFrame ==
    /\ Len(frames) < MaxFrames
    /\ \E confident, loud \in BOOLEAN :
          LET speaking == confident /\ loud
              next == ExecuteFrame(vcfg, vad, speaking)
          IN /\ vad' = next
             /\ vout' = IF next.state # vad.prev THEN Append(vout, next.state) ELSE vout
             /\ frames' = Append(frames, speaking)
    /\ UNCHANGED <<vcfg, streamVars, stageVars, opVars, pumpVars, extVars>>

(***************************************************************************)
(* realtime/ops and outspeed/ops: map, filter, merge, combine_latest, join. *)
(* The input streams are oq[1..Len(okind)]; the operator call appends its   *)
(* output streams to oq.                                                     *)
(***************************************************************************)
OpKinds == {"merge_rt", "merge_os", "map", "filter", "combine_latest", "join"}

\* The classes of the input streams: two that the operators know and
\* VADStream, which none of them lists.
StreamKinds == {"audio", "text", "vad"}

\* The isinstance ladder every operator uses to create its output stream.
Supported(k) == k \in {"audio", "video", "text", "bytes"}

\* map and filter take one stream, the others a list (here of two).
NIn(k) == IF k \in {"map", "filter"} THEN 1 ELSE 2

\* An item written to input i: its number on that input, whether it is None,
\* and what the user's callable does when applied to it ("true": returns a
\* true value, "false": returns a false value, "raise": raises an Exception).
OpItem(i, n, none, r) == [src |-> i, n |-> n, none |-> none, r |-> r, mapped |-> FALSE]

\* func(item), for an item on which func does not raise.
Mapped(x) == [x EXCEPT !.mapped = TRUE]

\* func(*items) of join, when func does not raise.
Joined(items) ==
    [src |-> 0, n |-> items[1].n * 10 + items[2].n, none |-> FALSE, r |-> "true", mapped |-> TRUE]

\* The streams appended for n outputs.
RECURSIVE FreshStreams(_)
FreshStreams(n) == IF n = 0 THEN <<>> ELSE Append(FreshStreams(n - 1), NewStream)

\* "not all(isinstance(x, type(input_queues[0])) for x in input_queues)":
\* the stream classes are siblings, so this is equality of class.
SameKind(kinds) == \A i \in 1..Len(kinds) : kinds[i] = kinds[1]

\* How many output streams the call creates, or -1 when it raises ValueError.
OutputsOf(k, kinds) ==
    CASE k \in {"merge_rt", "join"} ->
            IF SameKind(kinds) /\ Supported(kinds[1]) THEN 1 ELSE -1
      [] k \in {"merge_os", "map", "filter"} ->
            IF Supported(kinds[1]) THEN 1 ELSE -1
      [] k = "combine_latest" ->
            Cardinality({i \in 1..Len(kinds) : Supported(kinds[i])})

\* The tasks the call creates: one forwarder per input for merge, one run()
\* task for the others.
TasksOf(k, kinds) == IF k \in {"merge_rt", "merge_os"} THEN 1..Len(kinds) ELSE {1}

OpInit ==
    /\ opk \in OpKinds
    /\ okind \in IF NIn(opk) = 1
                 THEN {<<a>> : a \in StreamKinds}
                 ELSE {<<a, b>> : a, b \in StreamKinds}
    /\ oq = FreshStreams(NIn(opk))
    /\ op = [status |-> "new", tasks |-> {}, outs |-> <<>>]
    /\ olog = [written |-> [i \in 1..NIn(opk) |-> <<>>]]

\* The call merge([...]), map(s, f), filter(s, p), combine_latest([...]) or
\* join([...], f): checks, output streams, asyncio.create_task.
OpCall ==
    /\ op.status = "new"
    /\ LET n == OutputsOf(opk, okind)
       IN IF n < 0
          THEN /\ op' = [op EXCEPT !.status = "ValueError"]
               /\ oq' = oq
          ELSE /\ op' = [status |-> "running",
                         tasks |-> TasksOf(opk, okind),
                         outs |-> [j \in 1..n |-> Len(oq) + j]]
               /\ oq' = oq \o FreshStreams(n)
    /\ UNCHANGED <<opk, okind, olog, streamVars, stageVars, vadVars, pumpVars, extVars>>

\* What the producer of input i may write, by operator.
OpInputs(i, n) ==
    CASE opk \in {"map", "join"} -> {OpItem(i, n, FALSE, r) : r \in {"true", "raise"}}
      [] opk = "filter" -> {OpItem(i, n, none, r) : none \in BOOLEAN, r \in {"true", "false", "raise"}}
      [] OTHER -> {OpItem(i, n, FALSE, "true")}

\* The producer of input i writes an item.
OpWrite(i) ==
    /\ i \in 1..Len(okind)
    /\ op.status # "ValueError"
    /\ Len(olog.written[i]) < MaxOpItems
    /\ \E x \in OpInputs(i, Len(olog.written[i]) + 1) :
          /\ oq' = PutNowait(oq, i, x)
          /\ olog' = [olog EXCEPT !.written[i] = Append(@, x)]
    /\ UNCHANGED <<opk, okind, op, streamVars, stageVars, vadVars, pumpVars, extVars>>

\* A forwarder that loses the item it took when the output already holds one.
MergeForwardLossy(i) ==
    /\ opk \in {"merge_rt", "merge_os"}
    /\ i \in op.tasks
    /\ ~Empty(oq, i)
    /\ oq' = IF Empty(oq, op.outs[1])
             THEN PutNowait(GetNowait(oq, i), op.outs[1], GetNowaitValue(oq, i))
             ELSE GetNowait(oq, i)
    /\ UNCHANGED <<opk, okind, op, olog, streamVars, stageVars, vadVars, pumpVars, extVars>>

\* merge.get(queue): item = await queue.get(); output_queue.put_nowait(item)
MergeForward(i) ==
    /\ opk \in {"merge_rt", "merge_os"}
    /\ i \in op.tasks
    /\ ~Empty(oq, i)
    /\ oq' = PutNowait(GetNowait(oq, i), op.outs[1], GetNowaitValue(oq, i))
    /\ UNCHANGED <<opk, okind, op, olog, streamVars, stageVars, vadVars, pumpVars, extVars>>

\* A map task that ends when func raises.
MapRunDiesOnError ==
    /\ opk = "map"
    /\ 1 \in op.tasks
    /\ ~Empty(oq, 1)
    /\ LET x == GetNowaitValue(oq, 1)
       IN IF x.r = "raise"
          THEN /\ oq' = GetNowait(oq, 1)
               /\ op' = [op EXCEPT !.tasks = {}]
          ELSE /\ oq' = PutNowait(GetNowait(oq, 1), op.outs[1], Mapped(x))
               /\ op' = op
    /\ UNCHANGED <<opk, okind, olog, streamVars, stageVars, vadVars, pumpVars, extVars>>

\* map.run, one turn of the loop: get, func under try/except Exception
\* (continue on error), put.
MapRun ==
    /\ opk = "map"
    /\ 1 \in op.tasks
    /\ ~Empty(oq, 1)
    /\ LET x == GetNowaitValue(oq, 1)
       IN oq' = IF x.r = "raise"
                THEN GetNowait(oq, 1)
                ELSE PutNowait(GetNowait(oq, 1), op.outs[1], Mapped(x))
    /\ UNCHANGED <<opk, okind, op, olog, streamVars, stageVars, vadVars, pumpVars, extVars>>

\* A filter that forwards whatever the predicate does not reject.
FilterRunForwardsOnError ==
    /\ opk = "filter"
    /\ 1 \in op.tasks
    /\ ~Empty(oq, 1)
    /\ LET x == GetNowaitValue(oq, 1)
       IN oq' = IF ~x.none /\ x.r # "false"
                THEN PutNowait(GetNowait(oq, 1), op.outs[1], x)
                ELSE GetNowait(oq, 1)
    /\ UNCHANGED <<opk, okind, op, olog, streamVars, stageVars, vadVars, pumpVars, extVars>>

\* filter.run, one turn of the loop: get; "if item is not None and
\* predicate(item)" put the item itself; an exception of the predicate is
\* caught and the loop continues.
FilterRun ==
    /\ opk = "filter"
    /\ 1 \in op.tasks
    /\ ~Empty(oq, 1)
    /\ LET x == GetNowaitValue(oq, 1)
       IN oq' = IF ~x.none /\ x.r = "true"
                THEN PutNowait(GetNowait(oq, 1), op.outs[1], x)
                ELSE GetNowait(oq, 1)
    /\ UNCHANGED <<opk, okind, op, olog, streamVars, stageVars, vadVars, pumpVars, extVars>>

\* "for in_q, out_q in zip(input_queues, output_queues)": pairs j..n, each
\* moving one item from input j to the j-th output stream.
RECURSIVE CombineMove(_, _, _)
CombineMove(q, j, n) ==
    IF j > n THEN q
    ELSE CombineMove(PutNowait(GetNowait(q, j), op.outs[j], GetNowaitValue(q, j)), j + 1, n)

\* combine_latest.run, one turn of the loop that does not sleep: no input is
\* empty(), so one item is moved for each pair of the zip, which stops at the
\* shorter of the two lists.
CombineRun ==
    /\ opk = "combine_latest"
    /\ 1 \in op.tasks
    /\ \A i \in 1..Len(okind) : ~Empty(oq, i)
    /\ LET n == IF Len(op.outs) < Len(okind) THEN Len(op.outs) ELSE Len(okind)
       IN oq' = CombineMove(oq, 1, n)
    /\ UNCHANGED <<opk, okind, op, olog, streamVars, stageVars, vadVars, pumpVars, extVars>>

\* get_nowait() on each of the inputs 1..n in turn.
RECURSIVE TakeAll(_, _)
TakeAll(q, n) == IF n = 0 THEN q ELSE GetNowait(TakeAll(q, n - 1), n)

\* join.run, one turn of the loop that does not sleep: one item is taken from
\* every input, and func(*items) is written unless func raises.
JoinRun ==
    /\ opk = "join"
    /\ 1 \in op.tasks
    /\ \A i \in 1..Len(okind) : ~Empty(oq, i)
    /\ LET items == [i \in 1..Len(okind) |-> GetNowaitValue(oq, i)]
           taken == TakeAll(oq, Len(okind))
       IN oq' = IF \E i \in 1..Len(okind) : items[i].r = "raise"
                THEN taken
                ELSE PutNowait(taken, op.outs[1], Joined(items))
    /\ UNCHANGED <<opk, okind, op, olog, streamVars, stageVars, vadVars, pumpVars, extVars>>

(***************************************************************************)
(* realtime/streaming_endpoint/AudioRTCDriver.py and VideoRTCDriver.py.    *)
(* Time is counted in ticks of 10 ms; audio presentation timestamps in     *)
(* chunks of 20 ms of samples, video timestamps in frames.                 *)
(***************************************************************************)
\* output_audio_chunk_size_seconds, in ticks: the duration samples/sample_rate
\* of every frame the resampler returns.
ChunkTicks == 2

\* The entries of audio_output_q: AudioData with its pts and the number of
\* chunks the resampler cuts it into, or something that is not AudioData.
AudioItem(pts, n) == [k |-> "audio", pts |-> pts, n |-> n]
NotAudio == [k |-> "none", pts |-> 0, n |-> 0]

\* The entries of video_output_q: ImageData whose frame carries the
\* timestamp pts (NoPts: get_frame leaves the frame's pts unset) and lasts
\* 1 / frame_rate = n ticks.
NoPts == -1
ImageItem(pts, n) == [k |-> "image", pts |-> pts, n |-> n]

\* What the pipeline can write to the output queue of each driver.
OutputItems(media) ==
    IF media = "audio"
    THEN {AudioItem(p, n) : p \in {0, MaxPts}, n \in 1..MaxChunksPerItem} \cup {NotAudio}
    ELSE {ImageItem(p, n) : p \in {NoPts, 0, MaxPts}, n \in 1..ChunkTicks} \cup {NotAudio}

\* Frames j..n cut from one item, stamped from audio_samples upwards.
RECURSIVE Resampled(_, _, _)
Resampled(samples, j, n) ==
    IF j > n THEN <<>>
    ELSE <<[pts |-> samples]>> \o Resampled(samples + 1, j + 1, n)

Max(a, b) == IF a >= b THEN a ELSE b

\* The log after recv has returned a frame: the frame's timestamp, whether
\* recv slept for it, and the times of the first and of the latest return.
Delivered(pts, slept) ==
    [plog EXCEPT !.delivered = Append(@, [pts |-> pts, slept |-> slept]),
                 !.first = IF @ = -1 THEN now ELSE @,
                 !.last = now]

\* AudioRTCDriver.__init__ or VideoRTCDriver.__init__; _start = None is -1.
PumpInit ==
    /\ now = 0
    /\ \E media \in {"audio", "video"} :
          drv = [kind |-> media, start |-> -1, samples |-> 0, recvpc |-> "get",
                 wake |-> 0, cur |-> [pts |-> 0, d |-> 0]]
    /\ aq = <<>>
    /\ dq = <<>>
    /\ plog = [put |-> <<>>, delivered |-> <<>>, first |-> -1, last |-> -1]

\* Time passes.
Tick ==
    /\ now < MaxTime
    /\ now' = now + 1
    /\ UNCHANGED <<drv, aq, dq, plog, streamVars, stageVars, vadVars, opVars, extVars>>

\* Everything written so far has been returned by recv and has been played:
\* _start is the time at which the frames returned so far end.
PlayedOut == aq = <<>> /\ dq = <<>> /\ drv.recvpc # "sleep" /\ now >= drv.start

\* The pipeline writes an item to audio_output_q or video_output_q.
PumpPut ==
    /\ Len(plog.put) < MaxItems
    /\ \E x \in OutputItems(drv.kind) :
          /\ aq' = Append(aq, x)
          /\ plog' = [plog EXCEPT !.put = Append(@, [item |-> x, late |-> now > 0,
                                                      slow |-> PlayedOut])]
    /\ UNCHANGED <<now, drv, dq, streamVars, stageVars, vadVars, opVars, extVars>>

\* A run_output that stamps the frames from the item's own start time.
OutTakeStampsFromItem ==
    /\ drv.kind = "audio"
    /\ Len(dq) <= 2
    /\ aq # <<>>
    /\ aq' = Tail(aq)
    /\ LET x == Head(aq)
       IN IF x.k # "audio"
          THEN UNCHANGED <<drv, dq>>
          ELSE /\ dq' = dq \o Resampled(x.pts, 1, x.n)
               /\ drv' = [drv EXCEPT !.samples = x.pts + x.n]
    /\ UNCHANGED <<now, plog, streamVars, stageVars, vadVars, opVars, extVars>>

\* run_output, one turn of the loop: past the wait for qsize() <= 2, get an
\* item, skip it unless it is AudioData, resample it and queue the frames
\* with their timestamps.
OutTake ==
    /\ drv.kind = "audio"
    /\ Len(dq) <= 2
    /\ aq # <<>>
    /\ aq' = Tail(aq)
    /\ LET x == Head(aq)
           base == Max(drv.samples, x.pts)
       IN IF x.k # "audio"
          THEN UNCHANGED <<drv, dq>>
          ELSE /\ dq' = dq \o Resampled(base, 1, x.n)
               /\ drv' = [drv EXCEPT !.samples = base + x.n]
    /\ UNCHANGED <<now, plog, streamVars, stageVars, vadVars, opVars, extVars>>

\* A recv that returns every frame at once.
RecvNeverSleeps ==
    /\ drv.kind = "audio"
    /\ drv.recvpc = "get"
    /\ dq # <<>>
    /\ dq' = Tail(dq)
    /\ drv' = [drv EXCEPT !.start = Max(drv.start, now) + ChunkTicks]
    /\ plog' = Delivered(Head(dq).pts, FALSE)
    /\ UNCHANGED <<now, aq, streamVars, stageVars, vadVars, opVars, extVars>>

\* A recv that sleeps until the frames returned so far have been played.
RecvNoTolerance ==
    /\ drv.kind = "audio"
    /\ drv.recvpc = "get"
    /\ dq # <<>>
    /\ dq' = Tail(dq)
    /\ LET wait == drv.start - now
       IN IF drv.start = -1
          THEN /\ drv' = [drv EXCEPT !.start = now + ChunkTicks]
               /\ plog' = Delivered(Head(dq).pts, FALSE)
          ELSE IF wait > 0
          THEN /\ drv' = [drv EXCEPT !.recvpc = "sleep", !.wake = now + wait,
                                      !.cur = [pts |-> Head(dq).pts, d |-> ChunkTicks]]
               /\ plog' = plog
          ELSE /\ drv' = [drv EXCEPT !.start = Max(drv.start, now) + ChunkTicks]
               /\ plog' = Delivered(Head(dq).pts, FALSE)
    /\ UNCHANGED <<now, aq, streamVars, stageVars, vadVars, opVars, extVars>>

\* recv up to its return or its sleep: take a frame; the first frame sets
\* _start and returns; later frames return at once when wait <= 0 and go to
\* sleep for wait otherwise.
Recv ==
    /\ drv.kind = "audio"
    /\ drv.recvpc = "get"
    /\ dq # <<>>
    /\ dq' = Tail(dq)
    /\ LET wait == drv.start - now - ChunkTicks
       IN IF drv.start = -1
          THEN /\ drv' = [drv EXCEPT !.start = now + ChunkTicks]
               /\ plog' = Delivered(Head(dq).pts, FALSE)
          ELSE IF wait > 0
          THEN /\ drv' = [drv EXCEPT !.recvpc = "sleep", !.wake = now + wait,
                                      !.cur = [pts |-> Head(dq).pts, d |-> ChunkTicks]]
               /\ plog' = plog
          ELSE /\ drv' = [drv EXCEPT !.start = Max(drv.start, now) + ChunkTicks]
               /\ plog' = Delivered(Head(dq).pts, FALSE)
    /\ UNCHANGED <<now, aq, streamVars, stageVars, vadVars, opVars, extVars>>

\* recv of either driver after asyncio.sleep(wait), which returns no
\* earlier than asked: _start = max(_start, time.time()) + data_time;
\* return frame.
RecvWake ==
    /\ drv.recvpc = "sleep"
    /\ now >= drv.wake
    /\ drv' = [drv EXCEPT !.recvpc = "get", !.start = Max(drv.start, now) + drv.cur.d]
    /\ plog' = Delivered(drv.cur.pts, TRUE)
    /\ UNCHANGED <<now, aq, dq, streamVars, stageVars, vadVars, opVars, extVars>>

\* VideoRTCDriver.recv up to its return, its sleep or its exception: take
\* an item from video_output_q; return None unless it is ImageData; a frame
\* without timestamp makes max() raise TypeError and recv ends with it;
\* ("raised"); otherwise stamp the frame with max(_video_samples, frame.pts), count one
\* frame and pace as the audio driver does, with the item's own duration.
VideoRecv ==
    /\ drv.kind = "video"
    /\ drv.recvpc = "get"
    /\ aq # <<>>
    /\ aq' = Tail(aq)
    /\ LET x == Head(aq)
           pts == Max(drv.samples, x.pts)
           wait == drv.start - now - x.n
       IN IF x.k # "image"
          THEN UNCHANGED <<drv, plog>>
          ELSE IF x.pts = NoPts
          THEN /\ drv' = [drv EXCEPT !.recvpc = "raised"]
               /\ plog' = plog
          ELSE IF drv.start = -1
          THEN /\ drv' = [drv EXCEPT !.samples = pts + 1, !.start = now + x.n]
               /\ plog' = Delivered(pts, FALSE)
          ELSE IF wait > 0
          THEN /\ drv' = [drv EXCEPT !.samples = pts + 1, !.recvpc = "sleep",
                                      !.wake = now + wait, !.cur = [pts |-> pts, d |-> x.n]]
               /\ plog' = plog
          ELSE /\ drv' = [drv EXCEPT !.samples = pts + 1, !.start = Max(drv.start, now) + x.n]
               /\ plog' = Delivered(pts, FALSE)
    /\ UNCHANGED <<now, dq, streamVars, stageVars, vadVars, opVars, extVars>>

(***************************************************************************)
(* Input pumps: AudioRTCDriver.run_input, VideoRTCDriver.run_input and     *)
(* WebsocketInputProcessor.run.  inp.track is the peer track (_track, or   *)
(* _inputTrack for the WebSocket), inp.inbound what the track holds for    *)
(* the pump, inp.out the driver's input stream (audio_input_q,             *)
(* video_input_q, audio_output_stream) and inp.msgs the message stream.    *)
(***************************************************************************)
PumpKinds == {"audio", "video", "ws"}

\* What arrives on the track: media frames on a peer track, JSON envelopes
\* on the WebSocket (audio payloads base64-encoded, well or badly).
Envelope(type, ok, id) == [type |-> type, ok |-> ok, id |-> id]
InboundFrames(k, id) ==
    IF k = "ws"
    THEN {Envelope(t, TRUE, id) : t \in {"message", "audio", "audio_end"}}
            \cup {Envelope("audio", FALSE, id)}
    ELSE {Envelope(k, TRUE, id)}

\* SessionData(), AudioData(frame) / ImageData(frame) /
\* AudioData(b64decode(data)), and the text of a message envelope.
SessionMarker == [k |-> "session", of |-> 0]
MediaItem(f) == [k |-> "media", of |-> f.id]
MessageText(f) == [k |-> "text", of |-> f.id]

\* The pump object before its task has run; the driver may have been built
\* without an input stream (hasq = FALSE).  log (the ids of the frames
\* enqueued, in order) and early (the task started before the track
\* existed) are read by no step.
InputInit ==
    \E k \in PumpKinds : \E q \in BOOLEAN :
        /\ k = "ws" => q
        /\ inp = [kind |-> k, hasq |-> q, pc |-> "start", track |-> FALSE, ended |-> FALSE,
                  inbound |-> <<>>, arrived |-> <<>>, out |-> <<>>, msgs |-> <<>>,
                  log |-> <<>>, early |-> FALSE]

\* add_track / setInputTrack: the handshake has produced the track.
AddTrack ==
    /\ ~inp.track
    /\ inp' = [inp EXCEPT !.track = TRUE]
    /\ UNCHANGED <<srv, clk, node, streamVars, stageVars, vadVars, opVars, pumpVars>>

\* The peer sends a frame.
FrameArrives ==
    /\ inp.track
    /\ ~inp.ended
    /\ Len(inp.arrived) < MaxInbound
    /\ \E f \in InboundFrames(inp.kind, Len(inp.arrived) + 1) :
          inp' = [inp EXCEPT !.inbound = Append(@, f), !.arrived = Append(@, f)]
    /\ UNCHANGED <<srv, clk, node, streamVars, stageVars, vadVars, opVars, pumpVars>>

\* The task starts: run_input returns at once without an input stream, and
\* otherwise goes on to wait for the track.
InputStart ==
    /\ inp.pc = "start"
    /\ inp' = [inp EXCEPT !.pc = IF inp.hasq THEN "wait" ELSE "done",
                          !.early = ~inp.track]
    /\ UNCHANGED <<srv, clk, node, streamVars, stageVars, vadVars, opVars, pumpVars>>

\* An input pump that does not wait for the track.
InputPollNoWait ==
    /\ inp.pc = "wait"
    /\ inp' = [inp EXCEPT !.pc = IF inp.track THEN "recv" ELSE "cancelled",
                          !.out = IF inp.kind = "audio" /\ inp.track
                                  THEN Append(@, SessionMarker) ELSE @]
    /\ UNCHANGED <<srv, clk, node, streamVars, stageVars, vadVars, opVars, pumpVars>>

\* while not self._track: await asyncio.sleep(0.2): the loop is left at the
\* first wake-up that sees the track; the audio driver then writes the
\* session marker.
InputPoll ==
    /\ inp.pc = "wait"
    /\ inp.track
    /\ inp' = [inp EXCEPT !.pc = "recv",
                          !.out = IF inp.kind = "audio" THEN Append(@, SessionMarker) ELSE @]
    /\ UNCHANGED <<srv, clk, node, streamVars, stageVars, vadVars, opVars, pumpVars>>

\* One turn of the receive loop.  Peer track: put the converted frame; the
\* exception at the end of the track is logged and ends the task with
\* CancelledError.
\* WebSocket: a message goes to the message stream, audio is decoded and
\* goes to the audio stream, any other type is passed over; an exception
\* (a payload that does not decode) is logged and ends the task with
\* CancelledError.
InputRecv ==
    /\ inp.pc = "recv"
    /\ inp.inbound # <<>>
    /\ LET f == Head(inp.inbound)
           rest == [inp EXCEPT !.inbound = Tail(@)]
       IN IF f.type = "end"
          THEN inp' = [rest EXCEPT !.pc = "cancelled"]
          ELSE IF inp.kind # "ws" \/ (f.type = "audio" /\ f.ok)
          THEN inp' = [rest EXCEPT !.out = Append(@, MediaItem(f)), !.log = Append(@, f.id)]
          ELSE IF f.type = "message"
          THEN inp' = [rest EXCEPT !.msgs = Append(@, MessageText(f)), !.log = Append(@, f.id)]
          ELSE IF f.type = "audio"
          THEN inp' = [rest EXCEPT !.pc = "cancelled"]
          ELSE inp' = rest
    /\ UNCHANGED <<srv, clk, node, streamVars, stageVars, vadVars, opVars, pumpVars>>

\* The peer track ends; the recv() that finds the end raises
\* MediaStreamError.
TrackEnds ==
    /\ inp.kind # "ws"
    /\ inp.track
    /\ ~inp.ended
    /\ inp' = [inp EXCEPT !.ended = TRUE, !.inbound = Append(@, Envelope("end", FALSE, 0))]
    /\ UNCHANGED <<srv, clk, node, streamVars, stageVars, vadVars, opVars, pumpVars>>

(***************************************************************************)
(* realtime/server.py, realtime/streaming_endpoint/server.py and           *)
(* realtime/websocket/handler.py: the connection counter, the signaling    *)
(* endpoint POST /offer and the WebSocket handler.  Every action is one    *)
(* run of a handler from one await to the next.                            *)
(***************************************************************************)
Peers == 1..MaxPeers
Sockets == 1..MaxSockets

\* The offers a client can post: without the "sdp" key, with an SDP that
\* setRemoteDescription refuses, with one for which no answer can be made,
\* and a good one.
Offers == {"missing", "invalid", "unnegotiable", "good"}

\* RealtimeServer._connections = 0, pcs = set(), no request made yet; the
\* drivers were built with or without output streams (outq).
ServerInit ==
    \E q \in BOOLEAN :
        srv = [connections |-> 0, pcs |-> {}, outq |-> q, down |-> FALSE,
               pc |-> [p \in Peers |-> [st |-> "none", offer |-> "none", tracks |-> FALSE,
                                        attached |-> FALSE, resp |-> "none"]],
               ws |-> [w \in Sockets |-> "none"],
               handled |-> {}]

\* RealtimeServer.add_connection and remove_connection.
AddConnection(n) == n + 1
RemoveConnection(n) == Max(n - 1, 0)

\* RealtimeServer.get_connections: the body of the reply to GET /connections.
GetConnections == IF srv.connections > 0 THEN <<"active_connection">> ELSE <<>>

\* handshake up to its first await.  params["sdp"] of an offer without the
\* key raises KeyError before the try block: the request ends with the
\* server's reply to an unhandled exception.  Otherwise the peer connection
\* is made, added to pcs and counted.
HsOffer(p) ==
    /\ ~srv.down
    /\ srv.pc[p].st = "none"
    /\ \E o \in Offers :
          IF o = "missing"
          THEN srv' = [srv EXCEPT !.pc[p].st = "refused", !.pc[p].offer = o,
                                  !.pc[p].resp = "500"]
          ELSE srv' = [srv EXCEPT !.pc[p].st = "remote", !.pc[p].offer = o,
                                  !.pcs = @ \cup {p},
                                  !.connections = AddConnection(@)]
    /\ UNCHANGED <<inp, clk, node, streamVars, stageVars, vadVars, opVars, pumpVars>>

\* setRemoteDescription returns or raises; after it the output tracks are
\* added, up to the await of createAnswer.
HsRemote(p) ==
    /\ srv.pc[p].st = "remote"
    /\ IF srv.pc[p].offer = "invalid"
       THEN srv' = [srv EXCEPT !.pc[p].st = "closing"]
       ELSE srv' = [srv EXCEPT !.pc[p].st = "answer",
                               !.pc[p].tracks = srv.outq,
                               !.pc[p].attached = srv.outq]
    /\ UNCHANGED <<inp, clk, node, streamVars, stageVars, vadVars, opVars, pumpVars>>

\* createAnswer and setLocalDescription return, and handshake returns the
\* answer; or one of them raises.
HsAnswer(p) ==
    /\ srv.pc[p].st = "answer"
    /\ IF srv.pc[p].offer = "unnegotiable"
       THEN srv' = [srv EXCEPT !.pc[p].st = "closing"]
       ELSE srv' = [srv EXCEPT !.pc[p].st = "connected", !.pc[p].resp = "200"]
    /\ UNCHANGED <<inp, clk, node, streamVars, stageVars, vadVars, opVars, pumpVars>>

\* The except branch after await pc.close(): pcs.discard(pc) and
\* HTTPException(400).
HsReject(p) ==
    /\ srv.pc[p].st = "closing"
    /\ srv' = [srv EXCEPT !.pc[p].st = "closed", !.pc[p].tracks = FALSE,
                          !.pc[p].resp = "400", !.pcs = @ \ {p}]
    /\ UNCHANGED <<inp, clk, node, streamVars, stageVars, vadVars, opVars, pumpVars>>

\* on_connectionstatechange with connectionState "failed", up to the await
\* of pc.close().
ConnFails(p) ==
    /\ srv.pc[p].st = "connected"
    /\ srv' = [srv EXCEPT !.pc[p].st = "failed"]
    /\ UNCHANGED <<inp, clk, node, streamVars, stageVars, vadVars, opVars, pumpVars>>

\* on_connectionstatechange after pc.close(): pcs.discard(pc).
ConnFailedDone(p) ==
    /\ srv.pc[p].st = "failed"
    /\ srv' = [srv EXCEPT !.pc[p].st = "closed", !.pc[p].tracks = FALSE,
                          !.pcs = @ \ {p}, !.handled = @ \cup {p}]
    /\ UNCHANGED <<inp, clk, node, streamVars, stageVars, vadVars, opVars, pumpVars>>

\* websocket_handler up to its first await: add_connection().
WsConnect(w) ==
    /\ ~srv.down
    /\ srv.ws[w] = "none"
    /\ srv' = [srv EXCEPT !.ws[w] = "open", !.connections = AddConnection(@)]
    /\ UNCHANGED <<inp, clk, node, streamVars, stageVars, vadVars, opVars, pumpVars>>

\* The socket closes or a task of the handler raises: the finally clause
\* calls remove_connection().
WsDisconnect(w) ==
    /\ srv.ws[w] = "open"
    /\ srv' = [srv EXCEPT !.ws[w] = "done", !.connections = RemoveConnection(@)]
    /\ UNCHANGED <<inp, clk, node, streamVars, stageVars, vadVars, opVars, pumpVars>>

\* The application shuts down: the server stops accepting requests and
\* calls the two functions registered for "shutdown".  Both are made with
\* @asynccontextmanager, so a call only makes a context manager; the code
\* after the yield runs only if the framework enters and leaves it: for
\* the signaling endpoint (rtc) closing and clearing pcs, for the WebSocket
\* handler (wsk) remove_connection().
Shutdown ==
    /\ ~srv.down
    /\ \E rtc \in BOOLEAN : \E wsk \in BOOLEAN :
          srv' = [srv EXCEPT
                    !.down = TRUE,
                    !.pcs = IF rtc THEN {} ELSE @,
                    !.pc = [p \in Peers |->
                               IF rtc /\ p \in srv.pcs
                               THEN [srv.pc[p] EXCEPT !.st = "closed", !.tracks = FALSE]
                               ELSE srv.pc[p]],
                    !.connections = IF wsk THEN RemoveConnection(@) ELSE @]
    /\ UNCHANGED <<inp, clk, node, streamVars, stageVars, vadVars, opVars, pumpVars>>

(***************************************************************************)
(* realtime/utils/clock.py: Clock.  clk.t is time.time(), in seconds;      *)
(* clk.start is Clock.start_time (NoStart for None); clk.ret holds the     *)
(* values get_playback_time has returned, in order.                        *)
(***************************************************************************)
NoStart == -1

ClockInit ==
    clk = [pc |-> "run", t |-> 0, start |-> NoStart, ret |-> <<>>, incs |-> 0]

\* start_playback: the body of the if.
StartedAt(start, t) == IF start = NoStart THEN t ELSE start

\* time.time() advances.
ClockTick ==
    /\ clk.pc = "run"
    /\ clk.t < MaxClock
    /\ clk' = [clk EXCEPT !.t = @ + 1]
    /\ UNCHANGED <<inp, srv, node, streamVars, stageVars, vadVars, opVars, pumpVars>>

StartPlayback ==
    /\ clk.pc = "run"
    /\ clk.start = NoStart
    /\ clk' = [clk EXCEPT !.start = StartedAt(@, clk.t)]
    /\ UNCHANGED <<inp, srv, node, streamVars, stageVars, vadVars, opVars, pumpVars>>

\* get_playback_time: start_playback(), then time.time() - start_time.
GetPlaybackTime ==
    /\ clk.pc = "run"
    /\ Len(clk.ret) < MaxReads
    /\ LET start == StartedAt(clk.start, clk.t)
       IN clk' = [clk EXCEPT !.start = start, !.ret = Append(@, clk.t - start)]
    /\ UNCHANGED <<inp, srv, node, streamVars, stageVars, vadVars, opVars, pumpVars>>

\* increment_playback_time(seconds): start_playback(), then
\* start_time += seconds.
IncrementPlaybackTime ==
    /\ clk.pc = "run"
    /\ clk.incs < MaxIncrements
    /\ \E seconds \in 1..2 :
          clk' = [clk EXCEPT !.start = StartedAt(@, clk.t) + seconds, !.incs = @ + 1]
    /\ UNCHANGED <<inp, srv, node, streamVars, stageVars, vadVars, opVars, pumpVars>>

(***************************************************************************)
(* The processing task of a stage: outspeed/nodes.py (Node._process_stream *)
(* and CustomLLMNode._process_stream), FireworksLLM and OpenAILLM          *)
(* (_stream_chat_completions) and CartesiaTTS (send_text).  node.inq is    *)
(* the input stream, node.out the output stream, node.hist the             *)
(* chat-history stream.                                                    *)
(***************************************************************************)
NodeKinds == {"node", "custom_llm", "fireworks", "openai", "cartesia"}
LLMKinds == {"fireworks", "openai"}

\* realtime GroqLLM: the same loop as the other LLMs, with no try around it.
Groq == "groq"

\* Input items: a text, None, SessionData.
NodeText(id) == [k |-> "text", id |-> id]
NodeNone == [k |-> "none", id |-> 0]
NodeSession == [k |-> "session", id |-> 0]

\* Output items: what process returned for an input, the c-th chunk of the
\* response to an input.
Processed(id) == [k |-> "processed", id |-> id, c |-> 0]
Chunk(id, c) == [k |-> "chunk", id |-> id, c |-> c]
EndMarker == [k |-> "none", id |-> 0, c |-> 0]
SessionOut == [k |-> "session", id |-> 0, c |-> 0]

\* json.dumps of the history entries: the user entry holds the input text,
\* the assistant entry the chunks added to its content.
UserEntry(id) == [role |-> "user", id |-> id, content |-> <<>>]
AssistantEntry(id, content) == [role |-> "assistant", id |-> id, content |-> content]

\* The stage after run(input_stream); OpenAILLM was built with a list of
\* tools or with the default tools = None.  cur and curk are the id and
\* the kind of the item being processed, ctx is CartesiaTTS._text_context_id
\* (set or None), ws its socket (open or None).  For OpenAILLM inq is the
\* stream merge() returned, src the stream the caller gave to run() and wpc
\* the position of the interrupt watcher; seen is the number of items
\* written when the watcher last suspended.  taken, raised, pre (the texts
\* taken before the last interrupt that was acted on), wrote (the texts
\* written to src), before (wrote when the last interrupt finished) and
\* mark (the length of taken at that moment) are read by no step.
NodeStart(k, tools) ==
    [kind |-> k, tools |-> tools, pc |-> "get", inq |-> <<>>,
     out |-> <<>>, hist |-> <<>>, cur |-> 0, curk |-> "none",
     nchunks |-> 0, ctx |-> FALSE, ws |-> FALSE,
     written |-> 0, taken |-> <<>>, raised |-> 0, pre |-> {},
     src |-> <<>>, wpc |-> "wait", seen |-> 0, wrote |-> {},
     before |-> {}, mark |-> 0]

NodeInit ==
    \E k \in NodeKinds : \E tools \in BOOLEAN :
        /\ k # "openai" => tools
        /\ node = NodeStart(k, tools)

\* Someone writes to the input stream.
NodeWrite ==
    /\ node.written < MaxNodeItems
    /\ \E x \in {NodeText(node.written + 1), NodeNone, NodeSession} :
          node' = [node EXCEPT !.inq = Append(@, x), !.written = @ + 1]
    /\ UNCHANGED <<inp, srv, clk, streamVars, stageVars, vadVars, opVars, pumpVars>>

\* The loop from get() to its next await, for item x.  Node:
\* process(input_data).  CustomLLMNode: SessionData is passed on, anything
\* else goes to process.  The LLMs: None is skipped, SessionData passed on,
\* a text is appended to the history and written to the chat-history
\* stream, then the completion is requested; building the request of an
\* OpenAILLM without tools iterates over None and raises.  CartesiaTTS:
\* the socket is opened if there is none (connected: whether that
\* succeeds; connect_websocket turns a failure into CancelledError, which
\* send_text does not catch); SessionData is passed on, None without an
\* open context is skipped, anything else is sent.
TakeOf(x, connected) ==
    LET rest == [node EXCEPT !.inq = Tail(@), !.taken = Append(@, x)]
        call == [rest EXCEPT !.pc = "call", !.cur = x.id, !.curk = x.k, !.nchunks = 0]
        dies == [rest EXCEPT !.pc = "dead", !.raised = @ + 1]
        pass == [rest EXCEPT !.out = Append(@, SessionOut)]
    IN CASE node.kind = "node" -> call
         [] node.kind = "custom_llm" -> IF x.k = "session" THEN pass ELSE call
         [] node.kind \in LLMKinds \cup {Groq} ->
              IF x.k = "none" THEN rest
              ELSE IF x.k = "session" THEN pass
              ELSE IF node.tools
              THEN [call EXCEPT !.hist = Append(@, UserEntry(x.id))]
              ELSE [dies EXCEPT !.hist = Append(@, UserEntry(x.id)), !.cur = x.id]
         [] node.kind = "cartesia" ->
              IF ~connected THEN dies
              ELSE IF x.k = "session" THEN [pass EXCEPT !.ws = TRUE]
              ELSE IF x.k = "none" /\ ~node.ctx THEN [rest EXCEPT !.ws = TRUE]
              ELSE [call EXCEPT !.ws = TRUE, !.ctx = TRUE]

NodeTake ==
    /\ node.pc = "get"
    /\ node.inq # <<>>
    /\ \E connected \in (IF node.kind = "cartesia" /\ ~node.ws THEN BOOLEAN ELSE {TRUE}) :
          node' = TakeOf(Head(node.inq), connected)
    /\ UNCHANGED <<inp, srv, clk, streamVars, stageVars, vadVars, opVars, pumpVars>>

\* The awaited call returns.  Node: back to get().  CustomLLMNode: the
\* output is written.  The LLMs: an assistant entry is appended to the
\* history and the response is read.  CartesiaTTS: the payload is sent; the
\* one for None has closed the context.
NodeReturn ==
    /\ node.pc = "call"
    /\ node' = CASE node.kind = "node" -> [node EXCEPT !.pc = "get"]
                 [] node.kind = "custom_llm" ->
                      [node EXCEPT !.pc = "get", !.out = Append(@, Processed(node.cur))]
                 [] node.kind \in LLMKinds \cup {Groq} -> [node EXCEPT !.pc = "stream"]
                 [] node.kind = "cartesia" ->
                      [node EXCEPT !.pc = "get",
                                   !.ctx = IF node.curk = "none" THEN FALSE ELSE @]
    /\ UNCHANGED <<inp, srv, clk, streamVars, stageVars, vadVars, opVars, pumpVars>>

\* The LLMs: a chunk with content arrives; it is added to the content of
\* the assistant entry and written to the output stream.
NodeChunk ==
    /\ node.pc = "stream"
    /\ node.nchunks < MaxRespChunks
    /\ node' = [node EXCEPT !.nchunks = @ + 1,
                            !.out = Append(@, Chunk(node.cur, node.nchunks + 1))]
    /\ UNCHANGED <<inp, srv, clk, streamVars, stageVars, vadVars, opVars, pumpVars>>

\* The chunks making up the content of the assistant entry of the turn.
RECURSIVE ContentOf(_, _)
ContentOf(id, n) == IF n = 0 THEN <<>> ELSE Append(ContentOf(id, n - 1), Chunk(id, n))

\* The LLMs: the response ends; the assistant entry is written to the
\* chat-history stream and None to the output stream.
NodeStreamEnd ==
    /\ node.pc = "stream"
    /\ node' = [node EXCEPT !.pc = "get",
                            !.hist = Append(@, AssistantEntry(node.cur,
                                                              ContentOf(node.cur, node.nchunks))),
                            !.out = Append(@, EndMarker)]
    /\ UNCHANGED <<inp, srv, clk, streamVars, stageVars, vadVars, opVars, pumpVars>>

\* The awaited call, or the reading of the response, raises.  The except
\* branch around the loop logs the error and raises CancelledError, which
\* ends the task; CartesiaTTS first writes None to its output stream.
\* GroqLLM has no except branch: the task ends with the exception.
NodeRaises ==
    /\ node.pc \in {"call", "stream"}
    /\ node' = [node EXCEPT !.pc = IF node.kind = Groq THEN "failed" ELSE "dead",
                            !.raised = @ + 1, !.ctx = FALSE,
                            !.out = IF node.kind = "cartesia" THEN Append(@, EndMarker) ELSE @]
    /\ UNCHANGED <<inp, srv, clk, streamVars, stageVars, vadVars, opVars, pumpVars>>

\* CustomLLMNode._interrupt takes a VAD state from the interrupt stream.
\* On SPEAKING with something in the input or the output stream it empties
\* the output stream, then the input stream; the processing task is left
\* as it is.  Any other state, or SPEAKING with both streams empty, does
\* nothing.
NodeInterrupt ==
    /\ node.kind = "custom_llm"
    /\ \E vad_state \in VADStates :
          node' = IF vad_state = "SPEAKING" /\ (node.inq # <<>> \/ node.out # <<>>)
                  THEN [node EXCEPT !.out = <<>>, !.inq = <<>>,
                                    !.pre = {node.taken[i].id : i \in
                                               {j \in 1..Len(node.taken) : node.taken[j].k = "text"}}]
                  ELSE node
    /\ UNCHANGED <<inp, srv, clk, streamVars, stageVars, vadVars, opVars, pumpVars>>

\* The output drain of an interrupt (FireworksLLM._interrupt: while not
\* self.output_queue.empty(): self.output_queue.get_nowait()) on a stream
\* that may have clones: the loop calls get_nowait on the stage's own
\* output stream only.
StreamDrain(s) ==
    /\ ~Empty(streams, s)
    /\ streams' = Drain(streams, s)
    /\ UNCHANGED <<events, created, parent, got>>
    /\ UNCHANGED <<stageVars, vadVars, opVars, pumpVars, extVars>>

\* OpenAILLM.run: self.input_queue = merge([input_queue,
\* self._tool_output_queue]).  Someone writes to the stream given to run().
LLMWrite ==
    /\ node.written < MaxNodeItems
    /\ \E x \in {NodeText(node.written + 1), NodeNone, NodeSession} :
          node' = [node EXCEPT !.src = Append(@, x), !.written = @ + 1,
                               !.wrote = IF x.k = "text" THEN @ \cup {x.id} ELSE @]
    /\ UNCHANGED <<inp, srv, clk, streamVars, stageVars, vadVars, opVars, pumpVars>>

\* The task merge() started for the caller's stream: item = await
\* queue.get(); output_queue.put_nowait(item), in a loop.  get() suspends
\* only on an empty queue, so one run of the task moves all that is there.
LLMMergeForward ==
    /\ node.src # <<>>
    /\ node' = [node EXCEPT !.inq = @ \o node.src, !.src = <<>>]
    /\ UNCHANGED <<inp, srv, clk, streamVars, stageVars, vadVars, opVars, pumpVars>>

\* self._generating: set before the completion is requested, reset when
\* the response has been read and in the except branch.
LLMGenerating == node.pc \in {"call", "stream", "cancelled"}

\* OpenAILLM._interrupt takes a VAD state.  On SPEAKING with something in
\* the merged input stream or the output stream, or while generating, it
\* cancels the generation task and awaits it; anything else does nothing.
LLMInterruptTake ==
    /\ node.wpc = "wait"
    /\ \E vad_state \in VADStates :
          node' = IF /\ vad_state = "SPEAKING"
                     /\ (node.inq # <<>> \/ node.out # <<>> \/ LLMGenerating)
                  THEN [node EXCEPT !.wpc = "await", !.seen = node.written,
                                    !.pc = IF @ = "dead" THEN @ ELSE "cancelled"]
                  ELSE node
    /\ UNCHANGED <<inp, srv, clk, streamVars, stageVars, vadVars, opVars, pumpVars>>

\* The cancelled task has ended and the watcher runs on: it empties the
\* output stream, then the merged input stream, resets _generating and
\* starts a new generation task.  The forwarding task was made ready by
\* every write that came before the watcher suspended, and has run since.
LLMInterruptResume ==
    /\ node.wpc = "await"
    /\ Len(node.src) <= node.written - node.seen
    /\ node' = [node EXCEPT !.wpc = "wait", !.pc = "get", !.out = <<>>, !.inq = <<>>,
                            !.before = node.wrote, !.mark = Len(node.taken)]
    /\ UNCHANGED <<inp, srv, clk, streamVars, stageVars, vadVars, opVars, pumpVars>>

\* GroqLLM._interrupt takes a VAD state.  On SPEAKING with something in
\* the input or the output stream it cancels the generation task (no
\* effect on a task that has ended) and awaits it; anything else does
\* nothing.
GroqInterruptTake ==
    /\ node.kind = Groq
    /\ node.wpc = "wait"
    /\ \E vad_state \in VADStates :
          node' = IF vad_state = "SPEAKING" /\ (node.inq # <<>> \/ node.out # <<>>)
                  THEN [node EXCEPT !.wpc = "await",
                                    !.pc = IF @ = "failed" THEN @ ELSE "cancelled"]
                  ELSE node
    /\ UNCHANGED <<inp, srv, clk, streamVars, stageVars, vadVars, opVars, pumpVars>>

\* await self._task returns.  For a cancelled task it raises
\* CancelledError, which is caught: the watcher empties the output stream,
\* then the input stream, and starts a new generation task.  For a task
\* that ended with an exception it raises that exception, which nothing in
\* _interrupt catches.
GroqInterruptResume ==
    /\ node.kind = Groq
    /\ node.wpc = "await"
    /\ node' = IF node.pc = "failed"
               THEN [node EXCEPT !.wpc = "ended"]
               ELSE [node EXCEPT !.wpc = "wait", !.pc = "get", !.out = <<>>, !.inq = <<>>]
    /\ UNCHANGED <<inp, srv, clk, streamVars, stageVars, vadVars, opVars, pumpVars>>

(***************************************************************************)
(* realtime/streaming_endpoint/TextRTCDriver.py.  inp.outq is               *)
(* text_output_q (the pipeline's text output stream), inp.inq text_input_q, *)
(* inp.track the data channel, inp.sent what was handed to channel.send.    *)
(***************************************************************************)
\* TextRTCDriver.__init__: either stream may be None (hasout, hasin FALSE);
\* no data channel yet.  written and dropped are read by no step.
TextDriverInit ==
    \E hasin, hasout \in BOOLEAN :
        inp = [kind |-> "text", hasin |-> hasin, hasout |-> hasout, pc |-> "start",
               track |-> FALSE, outq |-> <<>>, inq |-> <<>>, sent |-> <<>>,
               written |-> 0, dropped |-> {}, msgs |-> 0]

\* The pipeline writes a text to its text output stream.
TextWrite ==
    /\ inp.hasout
    /\ inp.written < MaxTexts
    /\ inp' = [inp EXCEPT !.outq = Append(@, inp.written + 1), !.written = @ + 1]
    /\ UNCHANGED <<srv, clk, node, streamVars, stageVars, vadVars, opVars, pumpVars>>

\* on_datachannel: text_driver.add_track(channel).
TextAddTrack ==
    /\ ~inp.track
    /\ inp' = [inp EXCEPT !.track = TRUE]
    /\ UNCHANGED <<srv, clk, node, streamVars, stageVars, vadVars, opVars, pumpVars>>

\* on_message: text_driver.put_text(message), for a message of the peer on
\* the data channel.
TextPutText ==
    /\ inp.track
    /\ inp.msgs < MaxMessages
    /\ inp' = [inp EXCEPT !.msgs = @ + 1,
                          !.inq = IF inp.hasin THEN Append(@, inp.msgs + 1) ELSE @]
    /\ UNCHANGED <<srv, clk, node, streamVars, stageVars, vadVars, opVars, pumpVars>>

\* run_input starts: it returns at once when there is no text output
\* stream.
TextRunInputStart ==
    /\ inp.pc = "start"
    /\ inp' = [inp EXCEPT !.pc = IF inp.hasout THEN "get" ELSE "returned"]
    /\ UNCHANGED <<srv, clk, node, streamVars, stageVars, vadVars, opVars, pumpVars>>

\* One pass of the loop of run_input: the text taken from the stream is
\* sent on the data channel, or skipped when there is no channel yet.
TextRunInput ==
    /\ inp.pc = "get"
    /\ inp.outq # <<>>
    /\ inp' = IF inp.track
              THEN [inp EXCEPT !.outq = Tail(@), !.sent = Append(@, Head(inp.outq))]
              ELSE [inp EXCEPT !.outq = Tail(@), !.dropped = @ \cup {Head(inp.outq)}]
    /\ UNCHANGED <<srv, clk, node, streamVars, stageVars, vadVars, opVars, pumpVars>>

(***************************************************************************)
(* Specifications.                                                         *)
(***************************************************************************)
StreamIdle ==
    /\ streams = <<>>
    /\ events = <<>>
    /\ created = <<>>
    /\ parent = <<>>
    /\ got = <<>>

StageIdle ==
    /\ kind = "none"
    /\ sq = <<>>
    /\ stage = [genpc |-> "done"]
    /\ ghost = [ev |-> "init"]

VadIdle ==
    /\ vcfg = [minSpeech |-> 0, minSilence |-> 0]
    /\ vad = VadNew
    /\ vout = <<>>
    /\ frames = <<>>

OpIdle ==
    /\ opk = "none"
    /\ okind = <<>>
    /\ oq = <<>>
    /\ op = [status |-> "none"]
    /\ olog = [written |-> <<>>]

PumpIdle ==
    /\ now = 0
    /\ drv = [recvpc |-> "none"]
    /\ aq = <<>>
    /\ dq = <<>>
    /\ plog = [put |-> <<>>]

InputIdle == inp = [pc |-> "none"]

ServerIdle == srv = [pcs |-> {}]

ClockIdle == clk = [pc |-> "none"]

NodeIdle == node = [pc |-> "none"]

EndpointIdle == InputIdle /\ ServerIdle /\ ClockIdle /\ NodeIdle

\* One operator, two producers and the operator's tasks.
InitInput ==
    /\ InputInit /\ ServerIdle /\ ClockIdle /\ NodeIdle
    /\ StreamIdle /\ StageIdle /\ VadIdle /\ OpIdle /\ PumpIdle

NextInput ==
    \/ AddTrack
    \/ FrameArrives
    \/ InputStart
    \/ InputPoll
    \/ InputRecv
    \/ TrackEnds

SpecInput == InitInput /\ [][NextInput]_vars

\* The text driver between the pipeline and the data channel.
InitText ==
    /\ TextDriverInit /\ ServerIdle /\ ClockIdle /\ NodeIdle
    /\ StreamIdle /\ StageIdle /\ VadIdle /\ OpIdle /\ PumpIdle

NextText ==
    \/ TextWrite
    \/ TextAddTrack
    \/ TextPutText
    \/ TextRunInputStart
    \/ TextRunInput

SpecText == InitText /\ [][NextText]_vars

\* The event loop runs the run_input task whenever it can go on, and the
\* peer opens the data channel.
FairSpecText ==
    /\ SpecText
    /\ WF_vars(TextRunInputStart)
    /\ WF_vars(TextRunInput)
    /\ WF_vars(TextAddTrack)

InitServer ==
    /\ ServerInit /\ InputIdle /\ ClockIdle /\ NodeIdle
    /\ StreamIdle /\ StageIdle /\ VadIdle /\ OpIdle /\ PumpIdle

NextServer ==
    \/ \E p \in Peers : HsOffer(p)
    \/ \E p \in Peers : HsRemote(p)
    \/ \E p \in Peers : HsAnswer(p)
    \/ \E p \in Peers : HsReject(p)
    \/ \E p \in Peers : ConnFails(p)
    \/ \E p \in Peers : ConnFailedDone(p)
    \/ \E w \in Sockets : WsConnect(w)
    \/ \E w \in Sockets : WsDisconnect(w)
    \/ Shutdown

SpecServer == InitServer /\ [][NextServer]_vars

InitClock ==
    /\ ClockInit /\ InputIdle /\ ServerIdle /\ NodeIdle
    /\ StreamIdle /\ StageIdle /\ VadIdle /\ OpIdle /\ PumpIdle

NextClock ==
    \/ ClockTick
    \/ StartPlayback
    \/ GetPlaybackTime
    \/ IncrementPlaybackTime

SpecClock == InitClock /\ [][NextClock]_vars

InitNode ==
    /\ NodeInit /\ InputIdle /\ ServerIdle /\ ClockIdle
    /\ StreamIdle /\ StageIdle /\ VadIdle /\ OpIdle /\ PumpIdle

NextNode ==
    \/ NodeWrite
    \/ NodeTake
    \/ NodeReturn
    \/ NodeChunk
    \/ NodeStreamEnd
    \/ NodeRaises

SpecNode == InitNode /\ [][NextNode]_vars

\* The processing task of a stage next to its interrupt watcher.
NextNodeIrq == NextNode \/ NodeInterrupt

SpecNodeIrq == InitNode /\ [][NextNodeIrq]_vars

\* OpenAILLM reading the merged stream, with its interrupt watcher and the
\* forwarding task of merge().
InitMerged == InitNode /\ node.kind = "openai"

NextMerged ==
    \/ LLMWrite
    \/ LLMMergeForward
    \/ NodeTake
    \/ NodeReturn
    \/ NodeChunk
    \/ NodeStreamEnd
    \/ NodeRaises
    \/ LLMInterruptTake
    \/ LLMInterruptResume

SpecMerged == InitMerged /\ [][NextMerged]_vars

\* GroqLLM with its interrupt watcher.
InitGroq ==
    /\ node = NodeStart(Groq, TRUE) /\ InputIdle /\ ServerIdle /\ ClockIdle
    /\ StreamIdle /\ StageIdle /\ VadIdle /\ OpIdle /\ PumpIdle

NextGroq == NextNode \/ GroqInterruptTake \/ GroqInterruptResume

SpecGroq == InitGroq /\ [][NextGroq]_vars

InitOps == OpInit /\ StreamIdle /\ StageIdle /\ VadIdle /\ PumpIdle /\ EndpointIdle

NextOps ==
    \/ OpCall
    \/ \E i \in 1..2 : OpWrite(i)
    \/ \E i \in 1..2 : MergeForward(i)
    \/ MapRun
    \/ FilterRun
    \/ CombineRun
    \/ JoinRun

SpecOps == InitOps /\ [][NextOps]_vars

\* The event loop runs every task that is ready.
FairSpecOps ==
    /\ SpecOps
    /\ \A i \in 1..2 : WF_vars(MergeForward(i))
    /\ WF_vars(MapRun)
    /\ WF_vars(FilterRun)
    /\ WF_vars(CombineRun)
    /\ WF_vars(JoinRun)

\* The audio driver between a pipeline that writes items and a peer
\* connection that calls recv.
InitPump == PumpInit /\ StreamIdle /\ StageIdle /\ VadIdle /\ OpIdle /\ EndpointIdle

NextPump ==
    \/ Tick
    \/ PumpPut
    \/ OutTake
    \/ Recv
    \/ RecvWake
    \/ VideoRecv

SpecPump == InitPump /\ [][NextPump]_vars


\* Stream: puts, gets and clones in any order.
Init == StreamInit /\ StageIdle /\ VadIdle /\ OpIdle /\ PumpIdle /\ EndpointIdle

Next == StreamNext

Spec == Init /\ [][Next]_vars

\* The stream with get_element_at_index among its operations.
NextIndex ==
    \/ StreamNext
    \/ \E s \in Ids : \E index \in 0..MaxIndex : StreamElementAt(s, index)

SpecIndex == Init /\ [][NextIndex]_vars

\* The operations of Stream, with an interrupt draining any of the streams.
NextDrain == StreamNext \/ \E s \in Ids : StreamDrain(s)

SpecDrain == Init /\ [][NextDrain]_vars

\* One interruptible stage with its upstream, its downstream and the VAD.
InitStage == StageInit /\ StreamIdle /\ VadIdle /\ OpIdle /\ PumpIdle /\ EndpointIdle

NextStage ==
    \/ Upstream
    \/ Downstream
    \/ VadSignal
    \/ GenTake
    \/ GenChunk
    \/ GenFinish
    \/ RecvAudio
    \/ FwdTake
    \/ GenCancelled
    \/ OldTaskEnds
    \/ WatcherTake
    \/ WatcherResume

SpecStage == InitStage /\ [][NextStage]_vars

\* SileroVAD fed any sequence of frames, under any configuration.
InitVad == VadInit /\ StreamIdle /\ StageIdle /\ OpIdle /\ PumpIdle /\ EndpointIdle

NextVad == VadFrame

SpecVad == InitVad /\ [][NextVad]_vars

\* The event loop runs every task that is ready, and the provider answers
\* every request.
FairSpecStage ==
    /\ SpecStage
    /\ WF_vars(GenTake)
    /\ WF_vars(GenChunk \/ GenFinish)
    /\ WF_vars(RecvAudio)
    /\ WF_vars(FwdTake)
    /\ WF_vars(GenCancelled)
    /\ WF_vars(WatcherTake)
    /\ WF_vars(WatcherResume)

(***************************************************************************)
(* Claims about Stream.                                                    *)
(***************************************************************************)
\* The streams c descends from by clone(), c itself included.
RECURSIVE Lineage(_)
Lineage(c) == IF parent[c] = 0 THEN {c} ELSE {c} \cup Lineage(parent[c])

\* The put() calls whose item stream c must have received: those made, after
\* c was created, on c or on a stream c descends from.
Due(c) == {i \in 1..Len(events) : i > created[c] /\ events[i] \in Lineage(c)}

RECURSIVE UpTo(_)
UpTo(n) == IF n = 0 THEN <<>> ELSE Append(UpTo(n - 1), n)

\* The items stream c still holds, oldest first.
Pending(c) == streams[c].cache \o streams[c].queue

\* C1: every item written to a stream once its clones exist is held, in write
\* order, by the stream and by each clone, until that very stream or clone
\* hands it out; a removal from one of them removes nothing from the others.
C1_CloneIsolation ==
    \A c \in Ids :
        Pending(c) = FilterSeq(UpTo(Len(events)), Due(c) \ Range(got[c]))

\* An origin with two clones; an item written after both exist has been
\* taken from one clone and is still held by the origin and the other clone.
C1_Witness ==
    /\ Len(streams) >= 3
    /\ parent[2] = 1 /\ parent[3] = 1
    /\ \E i \in 1..Len(events) :
          /\ events[i] = 1
          /\ i > created[3]
          /\ i \in Range(got[2])
          /\ i \in Range(Pending(1))
          /\ i \in Range(Pending(3))

\* C2: an item written before a clone was created is never observed on that
\* clone: it is neither held by it nor returned by a get on it.
C2_NoReplay ==
    \A c \in Ids :
        \A i \in Range(Pending(c)) \cup Range(got[c]) : i > created[c]

\* A clone made while its origin held an item has since received and handed
\* out a later item.
C2_Witness ==
    \E c \in Ids :
        /\ parent[c] # 0
        /\ created[c] > 0
        /\ created[c] \in Range(Pending(parent[c]))
        /\ got[c] # <<>>

\* The items written for stream c, in write order.
Written(c) == FilterSeq(UpTo(Len(events)), Due(c))

\* C15: what a stream or clone has returned from get() and get_nowait() so
\* far is, in order, the beginning of what was written for it, whatever
\* puts, gets and peeks came in between.
C15_FifoOrder ==
    \A c \in Ids :
        /\ Len(got[c]) <= Len(Written(c))
        /\ \A j \in 1..Len(got[c]) : got[c][j] = Written(c)[j]

\* A clone has returned two items while its origin holds a peeked item in
\* its cache.
C15_Witness ==
    \E c \in Ids :
        /\ parent[c] # 0
        /\ Len(got[c]) = 2
        /\ streams[parent[c]].cache # <<>>

\* C16: a stream that holds an item (qsize() > 0) does not make get() wait:
\* get() waits exactly while asyncio.Queue.empty() is true.
C16_GetReturnsWhenHolding ==
    \A s \in Ids : QSize(streams, s) > 0 => ~Empty(streams, s)

\* What stream s holds, in the order get_nowait() would return it.
Held(st, s) == st[s].cache \o st[s].queue

\* C31: get_element_at_index(index) leaves qsize() and the sequence of
\* items later returned by get_nowait() as they were before the call.
C31_ElementAtKeepsItems ==
    [][\A s \in Ids : \A index \in 0..MaxIndex :
          StreamElementAt(s, index) =>
              /\ QSize(streams', s) = QSize(streams, s)
              /\ Held(streams', s) = Held(streams, s)]_vars

\* Item i is held by stream c.
StillHeld(st, c, i) == i \in Range(st[c].cache \o st[c].queue)

\* C33: when the interrupt has drained a stage's output stream s, no item
\* that had been put on s is still pending in s or in a clone of s.
C33_DrainReachesClones ==
    [][\A s \in Ids : StreamDrain(s) =>
          \A c \in Ids : (c = s \/ parent[c] = s) =>
              \A i \in 1..Len(events) : events[i] = s => ~StillHeld(streams', c, i)]_vars

(***************************************************************************)
(* Claims about the interrupt protocol.                                    *)
(***************************************************************************)
\* The watcher has just finished with a SPEAKING signal that reached it while
\* the stage was mid-generation.
SpeakingMidGen == ghost.wnote.sig = "SPEAKING" /\ ghost.wnote.midgen

\* C3: when the watcher has finished handling a SPEAKING signal that found
\* the stage mid-generation with non-empty input and output streams, qsize()
\* is 0 for the input stream and for the output stream.
C3_StreamsEmptyAfterInterrupt ==
    (ghost.ev = "handled" /\ SpeakingMidGen /\ ghost.wnote.inNE /\ ghost.wnote.outNE)
        => (QSize(sq, In) = 0 /\ QSize(sq, Out) = 0)

\* The order in which section 4.3 wants the steps of an interrupt.
StepRank(step) ==
    CASE step = "cancel" -> 1
      [] step = "terminated" -> 2
      [] step = "drain_out" -> 3
      [] step = "drain_in" -> 4
      [] step = "clear_buffer" -> 5
      [] step = "restart" -> 6

\* C4: the steps of an interrupt happen in the order cancel, termination of
\* the cancelled task, drain of the output stream, drain of the input stream,
\* clearing of the buffer, restart; and a finished interrupt has done all of
\* them (clearing the buffer only in a stage that has one).
C4_InterruptStepOrder ==
    /\ \A i, j \in 1..Len(ghost.wlog) :
          i < j => StepRank(ghost.wlog[i]) < StepRank(ghost.wlog[j])
    /\ ghost.ev = "handled" =>
          {"cancel", "terminated", "drain_out", "drain_in", "restart"}
              \subseteq Range(ghost.wlog)

\* C5: a SPEAKING signal that reaches the watcher while the stage is
\* mid-generation is never passed over, and when the watcher has finished
\* with it the task has been cancelled and the stage is not generating.
C5_SpeakingMidGenCancels ==
    SpeakingMidGen =>
        /\ ghost.ev # "ignored"
        /\ ghost.ev = "handled" => ("cancel" \in Range(ghost.wlog) /\ ~stage.generating)

\* No further interrupt can come: the VAD has written all its signals and
\* the watcher has taken them all.
Settled == ghost.nvad = MaxVad /\ Empty(sq, Irq) /\ stage.wpc = "wait"

\* The stage has written to its output stream something made from input n.
Answered(n) == \E i \in 1..Len(ghost.outlog) : n \in Sources(ghost.outlog[i])

\* Text item n, written after an interrupt, waits in the input stream.
WaitingLate(n) ==
    /\ n \in ghost.late
    /\ \E i \in 1..Len(sq[In].queue) : sq[In].queue[i].id = n

\* C6: in an LLM or TTS stage whose interrupts are over and whose restarted
\* generation task is running, a text item written to the input stream after
\* an interrupt is eventually consumed and answered on the output stream.
C6_AcceptsInputAfterInterrupt ==
    \A n \in 1..MaxIn :
        [](( /\ kind \in {"fireworks", "elevenlabs", "azure", "cartesia"}
             /\ Settled
             /\ stage.genpc # "done"
             /\ WaitingLate(n) )
            => <>Answered(n))

\* C7: the interrupt drains never throw a session marker away.
C7_DrainKeepsSessionMarkers ==
    \A i \in 1..Len(ghost.discarded) : ghost.discarded[i].k # "session"

\* C8: a watcher step that takes QUIET, STARTING or STOPPING from the
\* interrupt stream leaves the stage object, its tasks, its input stream and
\* its output stream as they were.
C8_OnlySpeakingInterrupts ==
    [][( /\ stage.wpc = "wait"
         /\ ghost'.ev \in {"ignored", "cancelling", "handled"}
         /\ ghost'.wnote.sig # "SPEAKING" )
        => (stage' = stage /\ sq'[In] = sq[In] /\ sq'[Out] = sq[Out])]_vars

\* C36: no chunk the realtime TokenAggregator writes holds a token it had
\* taken from its input before its watcher last took SPEAKING from the
\* interrupt stream.
C36_NoOldTokensAfterSpeaking ==
    [][kind = "aggregator" =>
          \A i \in (Len(ghost.outlog) + 1)..Len(ghost'.outlog) :
              Sources(ghost'.outlog[i]) \cap ghost.old = {}]_vars

\* C38: with no interrupt signal ever written, a generation task that takes
\* a session marker from its input writes that marker, once, to the output
\* stream and is back at its get() without having processed it.
C38_SessionMarkerForwardedOnce ==
    [][( /\ ghost.nvad = 0
         /\ ghost'.ev = "take"
         /\ GetNowaitValue(sq, GenSource).k = "session" )
        => /\ ghost'.outlog = Append(ghost.outlog, GetNowaitValue(sq, GenSource))
           /\ stage'.genpc = "get"]_vars

\* C39: once the realtime TokenAggregator has written a session marker to
\* its output stream, it holds back no text that came in before that
\* marker: what is left in its buffer came in after it.
C39_TextBeforeMarkerWrittenFirst ==
    kind = "aggregator" =>
        \A i \in 1..Len(ghost.outlog) :
            ghost.outlog[i].k = "session" =>
                \A j \in 1..Len(stage.buffer) :
                    CharSource(stage.buffer[j]) > ghost.outlog[i].id

(***************************************************************************)
(* Claims about the stream operators.                                      *)
(***************************************************************************)
\* What the operator's (first) output stream holds, oldest first.
Out1 ==
    IF op.status = "running" /\ op.outs # <<>>
    THEN oq[op.outs[1]].cache \o oq[op.outs[1]].queue
    ELSE <<>>

\* The items of input i the operator has taken so far.
Consumed(i) == SubSeq(olog.written[i], 1, Len(olog.written[i]) - QSize(oq, i))

\* The items of q that came from input i.
From(q, i) == SelectSeq(q, LAMBDA x : x.src = i)

RECURSIVE MapSeq(_)
MapSeq(q) == IF q = <<>> THEN <<>> ELSE <<Mapped(Head(q))>> \o MapSeq(Tail(q))

\* N items have been written on each of the two inputs of a running merge.
MergeFed ==
    IF opk \in {"merge_rt", "merge_os"} /\ op.status = "running"
    THEN \A i \in 1..2 : Len(olog.written[i]) = MaxOpItems
    ELSE FALSE

\* The output holds 2N items: each input's items, in that input's order.
MergeDone ==
    IF opk \in {"merge_rt", "merge_os"} /\ op.status = "running"
    THEN /\ Len(Out1) = 2 * MaxOpItems
         /\ \A i \in 1..2 : From(Out1, i) = olog.written[i]
    ELSE FALSE

\* C13: once N items are written on each of the two inputs of merge, the
\* output eventually holds exactly 2N items, an interleaving of the two
\* inputs that keeps each input's order, however the forwarders are run.
C13_MergeDeliversAll == [](MergeFed => <>MergeDone)

\* All items have arrived and the two inputs are truly interleaved.
C13_Witness ==
    /\ opk \in {"merge_rt", "merge_os"}
    /\ MergeDone
    /\ Out1[1].src = 2 /\ Out1[2].src = 1 /\ Out1[3].src = 2

\* C14: the output of map holds f(x) for exactly the items taken so far on
\* which f did not raise, in input order, and the map task is alive.
C14_MapSkipsFailure ==
    (opk = "map" /\ op.status = "running") =>
        /\ 1 \in op.tasks
        /\ Out1 = MapSeq(SelectSeq(Consumed(1), LAMBDA x : x.r # "raise"))

\* f raised on the second of three items; all three were taken and the
\* first and the third are on the output.
C14_Witness ==
    /\ opk = "map" /\ op.status = "running"
    /\ Len(olog.written[1]) = 3
    /\ olog.written[1][1].r = "true"
    /\ olog.written[1][2].r = "raise"
    /\ olog.written[1][3].r = "true"
    /\ Len(Consumed(1)) = 3
    /\ Len(Out1) = 2

\* C17: a step of combine_latest (or join) that takes an item from some
\* input finds an item on every input and takes exactly one from each.
C17_CombineTakesOneFromEach ==
    [][( /\ opk \in {"combine_latest", "join"}
         /\ \E i \in 1..Len(okind) : QSize(oq', i) < QSize(oq, i) )
        => \A i \in 1..Len(okind) :
              /\ QSize(oq, i) > 0
              /\ QSize(oq', i) = QSize(oq, i) - 1]_vars

\* C18 as stated: the output of filter holds exactly the items taken so far
\* for which the predicate is true, unmodified and in input order, and the
\* task is alive.
C18_FilterKeepsExactlyTrue ==
    (opk = "filter" /\ op.status = "running") =>
        /\ 1 \in op.tasks
        /\ Out1 = SelectSeq(Consumed(1), LAMBDA x : x.r = "true")

\* C18, amended: the same for the items that are not None; a None item is
\* never forwarded.
C18_FilterKeepsTrueNonNone ==
    (opk = "filter" /\ op.status = "running") =>
        /\ 1 \in op.tasks
        /\ Out1 = SelectSeq(Consumed(1), LAMBDA x : ~x.none /\ x.r = "true")

\* The predicate raised on the second of three items, none of them None; all
\* were taken and the first and the third are on the output.
C18_Witness ==
    /\ opk = "filter" /\ op.status = "running"
    /\ Len(olog.written[1]) = 3
    /\ \A j \in 1..3 : ~olog.written[1][j].none
    /\ olog.written[1][1].r = "true"
    /\ olog.written[1][2].r = "raise"
    /\ olog.written[1][3].r = "true"
    /\ Len(Consumed(1)) = 3
    /\ Out1 = <<olog.written[1][1], olog.written[1][3]>>

\* C19: merge called with streams of different kinds raises ValueError and
\* starts no forwarding task.
C19_MergeRejectsMixedKinds ==
    ( /\ opk \in {"merge_rt", "merge_os"}
      /\ ~SameKind(okind)
      /\ op.status # "new" )
        => (op.status = "ValueError" /\ op.tasks = {})

(***************************************************************************)
(* Claims about the audio output pump.                                     *)
(***************************************************************************)
\* The tolerance of the pacing: two chunks.
Epsilon == 2 * ChunkTicks

\* All items written so far are audio items of n chunks each, written at
\* time 0, and every frame cut from them has been delivered.
BackToBack(n) ==
    /\ plog.put # <<>>
    /\ \A i \in 1..Len(plog.put) :
          /\ plog.put[i].item = AudioItem(plog.put[i].item.pts, n)
          /\ ~plog.put[i].late
    /\ Len(plog.delivered) = n * Len(plog.put)

\* C20: N audio items of equal duration d, all available at the start, are
\* not all delivered before N*d - Epsilon has passed since the first
\* delivery.
C20_NeverUnderSleeps ==
    \A n \in 1..MaxChunksPerItem :
        BackToBack(n) =>
            plog.last - plog.first >= Len(plog.put) * n * ChunkTicks - Epsilon

\* Two items of two chunks each were delivered in exactly N*d - Epsilon,
\* the last frame after a sleep.
C20_Witness ==
    /\ BackToBack(2)
    /\ Len(plog.put) = 2
    /\ plog.delivered[4].slept
    /\ plog.last - plog.first = 2 * 2 * ChunkTicks - Epsilon

\* The timestamps of the frames recv has returned so far, in order, are
\* strictly increasing.
Increasing(fs) ==
    \A i \in 1..Len(fs) : \A j \in 1..Len(fs) :
        i < j => fs[i].pts < fs[j].pts

\* C21: the presentation timestamps of the frames the output pump hands
\* out, one after the other, are strictly increasing, whatever start times
\* the media items carry; this holds of the frames already returned and of
\* the frames stamped and waiting to be returned.
C21_TimestampsIncrease ==
    /\ Increasing(plog.delivered)
    /\ Increasing(plog.delivered \o dq)
    /\ drv.recvpc = "sleep" =>
          \A i \in 1..Len(plog.delivered) : plog.delivered[i].pts < drv.cur.pts

\* Two media items, the second starting no later than the first, have both
\* been turned into frames and returned.
C21_Witness ==
    /\ Len(plog.put) = 2
    /\ plog.put[1].item.k \in {"audio", "image"}
    /\ plog.put[2].item.k \in {"audio", "image"}
    /\ plog.put[1].item.pts = MaxPts
    /\ plog.put[2].item.pts = 0
    /\ aq = <<>> /\ dq = <<>> /\ drv.recvpc = "get"
    /\ Len(plog.delivered) >= 2

\* Every item written so far became available no earlier than the playback
\* end of everything written before it.
SlowerThanRealTime == \A i \in 1..Len(plog.put) : plog.put[i].slow

\* No frame returned so far was returned after a sleep, and recv is not
\* asleep now.
NoSleep ==
    /\ drv.recvpc # "sleep"
    /\ \A i \in 1..Len(plog.delivered) : ~plog.delivered[i].slept

\* C22 as stated: when every item becomes available no earlier than the
\* playback end of the previous one, the output pump never sleeps.
C22_SlowNeverSleeps == SlowerThanRealTime => NoSleep

\* Every audio item written so far is at most two chunks long (video items
\* are one frame each).
ShortItems ==
    \A i \in 1..Len(plog.put) :
        plog.put[i].item.k = "audio" => plog.put[i].item.n <= 2

\* C22, amended: when every item becomes available no earlier than the
\* playback end of the previous one and no audio item is longer than two
\* chunks, the output pump never sleeps.  (The frames of a longer item are
\* available together, and recv sleeps from the third one on.)
C22_SlowShortNeverSleeps == (SlowerThanRealTime /\ ShortItems) => NoSleep

\* Two items, the second written after the first had been played, have been
\* returned without a sleep.
C22_Witness ==
    /\ Len(plog.put) = 2
    /\ SlowerThanRealTime /\ ShortItems
    /\ plog.put[2].late
    /\ plog.put[1].item.k \in {"audio", "image"}
    /\ plog.put[2].item.k \in {"audio", "image"}
    /\ plog.put[2].item.pts # NoPts /\ plog.put[1].item.pts # NoPts
    /\ aq = <<>> /\ dq = <<>> /\ drv.recvpc = "get"
    /\ Len(plog.delivered) >= 2
    /\ NoSleep

(***************************************************************************)
(* Claims about the input pumps.                                           *)
(***************************************************************************)
\* The ids of the frames of q, in order.
RECURSIVE FrameIds(_)
FrameIds(q) == IF q = <<>> THEN <<>> ELSE <<Head(q).id>> \o FrameIds(Tail(q))

\* p is a prefix of q.
IsPrefix(p, q) == Len(p) <= Len(q) /\ SubSeq(q, 1, Len(p)) = p

\* The pump has taken everything that arrived and waits for more.
CaughtUp == inp.pc = "recv" /\ inp.inbound = <<>>

\* Without a track the pump has neither failed nor written anything.
WaitsForTrack ==
    ~inp.track => /\ inp.pc \in {"start", "wait", "done"}
                  /\ inp.out = <<>> /\ inp.msgs = <<>>

\* C23 as stated: an input pump started before any peer track exists
\* neither fails nor enqueues anything; once the track is attached it
\* enqueues every inbound frame, in arrival order.
C23_EnqueuesEveryFrame ==
    /\ WaitsForTrack
    /\ IsPrefix(inp.log, FrameIds(inp.arrived))
    /\ CaughtUp => inp.log = FrameIds(inp.arrived)

\* The frames the pump has a stream for: every frame of a peer track, the
\* message and audio envelopes of a WebSocket.
Handled(f) == inp.kind # "ws" \/ f.type \in {"message", "audio"}

\* The handled frames of q up to the first one that does not decode.
RECURSIVE Accepted(_)
Accepted(q) ==
    IF q = <<>> THEN <<>>
    ELSE IF ~Handled(Head(q)) THEN Accepted(Tail(q))
    ELSE IF ~Head(q).ok THEN <<>>
    ELSE <<Head(q)>> \o Accepted(Tail(q))

\* The media items and message texts made from the frames of q.
RECURSIVE MediaOf(_)
MediaOf(q) ==
    IF q = <<>> THEN <<>>
    ELSE IF inp.kind = "ws" /\ Head(q).type = "message" THEN MediaOf(Tail(q))
    ELSE <<MediaItem(Head(q))>> \o MediaOf(Tail(q))

RECURSIVE TextsOf(_)
TextsOf(q) ==
    IF q = <<>> THEN <<>>
    ELSE IF inp.kind = "ws" /\ Head(q).type = "message"
    THEN <<MessageText(Head(q))>> \o TextsOf(Tail(q))
    ELSE TextsOf(Tail(q))

\* What the input stream holds besides the media: the audio driver's
\* session marker, written when the track is found.
Preamble == IF inp.kind = "audio" /\ inp.pc \in {"recv", "cancelled"}
            THEN <<SessionMarker>> ELSE <<>>

\* C23, amended: an input pump started before any peer track exists neither
\* fails nor enqueues anything; once the track is attached it converts and
\* enqueues, in arrival order, every inbound frame it has a stream for (all
\* frames of a peer track, after the audio driver's session marker; the
\* message and audio envelopes of a WebSocket, each on its stream, other
\* envelope types being passed over) up to the first payload that does not
\* decode, which ends the pump.
C23_EnqueuesHandledFrames ==
    /\ WaitsForTrack
    /\ IsPrefix(inp.log, FrameIds(Accepted(inp.arrived)))
    /\ (CaughtUp \/ inp.pc = "cancelled") => inp.log = FrameIds(Accepted(inp.arrived))
    /\ (CaughtUp \/ inp.pc = "cancelled") =>
          /\ inp.out = Preamble \o MediaOf(Accepted(inp.arrived))
          /\ inp.msgs = TextsOf(Accepted(inp.arrived))

\* The pump was started and waited without a track; the track came, three
\* frames arrived and the pump has enqueued them.
C23_Witness ==
    /\ inp.early
    /\ CaughtUp
    /\ Len(inp.arrived) = MaxInbound
    /\ Len(inp.log) = MaxInbound

(***************************************************************************)
(* Claims about the signaling server and the connection counter.           *)
(***************************************************************************)
\* C26: when a peer connection's state changes to "failed", the handler
\* leaves the connection closed and out of the set of peer connections,
\* and the active-connection counter one lower than it found it.
C26_FailedTearsDownAndDecrements ==
    [][\A p \in Peers :
          (p \in srv'.handled /\ p \notin srv.handled) =>
              /\ srv'.pc[p].st = "closed"
              /\ p \notin srv'.pcs
              /\ srv'.connections = srv.connections - 1]_vars

\* The sessions that are open: the peer connections made for an offer and
\* not closed yet, and the WebSocket handlers that have not returned.
ActiveSessions ==
    {<<"pc", p>> : p \in {q \in Peers : srv.pc[q].st \in
                              {"remote", "answer", "connected", "closing", "failed"}}}
        \cup {<<"ws", w>> : w \in {v \in Sockets : srv.ws[v] = "open"}}

\* C27: GET /connections reports an active connection if and only if at
\* least one session is open, after any sequence of offers, rejected
\* offers, connection failures, WebSocket connects and disconnects.  (The
\* formula asks this of the running server only; what the claim says of
\* the time after a shutdown is left out of it.)
C27_ReportsActiveIffSession ==
    ~srv.down => ((GetConnections # <<>>) <=> (ActiveSessions # {}))

\* C28: an offer with missing or invalid SDP, or one that cannot be
\* negotiated, is never answered, and when it is rejected with an error
\* reply no output track has been attached to its peer connection.
C28_RejectedBeforeTracks ==
    \A p \in Peers :
        srv.pc[p].offer \in {"missing", "invalid", "unnegotiable"} =>
            /\ srv.pc[p].resp \in {"none", "400", "500"}
            /\ srv.pc[p].resp \in {"400", "500"} => ~srv.pc[p].attached

(***************************************************************************)
(* Claims about the session clock.                                         *)
(***************************************************************************)
\* C29: the start time is set at the first access, and the values returned
\* by successive get_playback_time calls never decrease, whatever calls of
\* start_playback, get_playback_time and increment_playback_time come
\* between them.
C29_ClockMonotonic ==
    /\ clk.ret # <<>> => clk.start # NoStart
    /\ \A i \in 1..Len(clk.ret) : \A j \in 1..Len(clk.ret) :
          i < j => clk.ret[i] <= clk.ret[j]

(***************************************************************************)
(* Claims about the processing tasks of the stages.                        *)
(***************************************************************************)
\* C24: when a stage's task has ended because of an unexpected exception,
\* the last thing it wrote to its output stream is the end marker.
C24_CrashClosesOutput ==
    node.pc = "dead" => (node.out # <<>> /\ node.out[Len(node.out)] = EndMarker)

\* C25: when the processing of a Node raises for an input item, the task
\* of the Node does not end: it goes on to take the items written after
\* the failing one.
C25_NodeSurvivesItemError ==
    (node.kind \in {"node", "custom_llm"} /\ node.raised > 0) => node.pc # "dead"

\* The texts the stage has taken from its input, in order.
TakenTexts == SelectSeq(node.taken, LAMBDA x : x.k = "text")

\* What the stage wrote to its output stream for the turn of text id.
ResponseTo(id) == SelectSeq(node.out, LAMBDA y : y.k = "chunk" /\ y.id = id)

\* The chat history the turns of the texts in q call for.
RECURSIVE HistoryFor(_)
HistoryFor(q) ==
    IF q = <<>> THEN <<>>
    ELSE <<UserEntry(Head(q).id), AssistantEntry(Head(q).id, ResponseTo(Head(q).id))>>
            \o HistoryFor(Tail(q))

\* C30: whenever the LLM stage is not in the middle of a turn, the
\* chat-history stream holds, for each user text the stage has taken from
\* its input, the user entry and then the assistant entry whose content is
\* the response the stage wrote to its output stream for that turn.
C30_HistoryHasBothEntries ==
    (node.kind \in LLMKinds /\ node.pc \in {"get", "dead"}) =>
        node.hist = HistoryFor(TakenTexts)

\* C32: once the watcher of a CustomLLMNode has acted on SPEAKING, nothing
\* in the output stream (emptied by the watcher, so written afterwards) is
\* the result of a text the stage had taken from its input before that
\* interrupt.
C32_NoOutputFromInterruptedWork ==
    \A i \in 1..Len(node.out) : node.out[i].id \notin node.pre

\* C34: the generation task that OpenAILLM's watcher started at the end of
\* an interrupt takes no text that had been written to the caller's input
\* stream before that interrupt finished.
C34_RestartedTaskSeesNoOldText ==
    \A i \in (node.mark + 1)..Len(node.taken) :
        node.taken[i].k = "text" => node.taken[i].id \notin node.before

\* C35: the interrupt watcher of GroqLLM never ends, whatever became of the
\* generation task before SPEAKING arrived.
C35_WatcherNeverEnds == node.wpc # "ended"

(***************************************************************************)
(* Claims about the text driver.                                           *)
(***************************************************************************)
\* C40: every text the pipeline writes to its text output stream is
\* eventually sent on the data channel, whether it was written before or
\* after the channel was attached.
C40_EveryTextSent ==
    \A n \in 1..MaxTexts :
        (inp.written >= n) ~> (\E i \in 1..Len(inp.sent) : inp.sent[i] = n)

(***************************************************************************)
(* Claims about the voice-activity detector.                               *)
(***************************************************************************)
RECURSIVE Repeat(_, _)
Repeat(x, n) == IF n = 0 THEN <<>> ELSE <<x>> \o Repeat(x, n - 1)

\* The frames fed so far are k non-speaking frames, then m speaking frames
\* lasting at least min_speech, then n non-speaking frames lasting at least
\* min_silence.
QuietSpeechQuiet ==
    \E k \in 0..Len(frames), m \in 1..Len(frames), n \in 1..Len(frames) :
        /\ frames = Repeat(FALSE, k) \o Repeat(TRUE, m) \o Repeat(FALSE, n)
        /\ m * FrameDur >= vcfg.minSpeech
        /\ n * FrameDur >= vcfg.minSilence

FullCycle == <<"QUIET", "STARTING", "SPEAKING", "STOPPING", "QUIET">>

C10_StoppingToSpeaking ==
    [][( /\ vad.state = "STOPPING"
         /\ Len(frames') = Len(frames) + 1
         /\ frames'[Len(frames')] )
        => vad'.state = "SPEAKING"]_vars

\* C11: a non-speaking frame analysed in STARTING takes the detector to QUIET
\* with the speech-duration accumulator at zero.
C11_StartingToQuiet ==
    [][( /\ vad.state = "STARTING"
         /\ Len(frames') = Len(frames) + 1
         /\ ~frames'[Len(frames')] )
        => (vad'.state = "QUIET" /\ vad'.speech = 0)]_vars

\* The detector as it stands after the first i frames fed.
RECURSIVE VadAfter(_)
VadAfter(i) ==
    IF i = 0 THEN VadNew ELSE ExecuteFrame(vcfg, VadAfter(i - 1), frames[i])

\* The states the detector was left in by the first i frames, one entry for
\* each frame that left it in another state than the frame before did.
RECURSIVE ChangesUpTo(_)
ChangesUpTo(i) ==
    IF i = 0 THEN <<>>
    ELSE IF VadAfter(i).state # VadAfter(i - 1).state
         THEN Append(ChangesUpTo(i - 1), VadAfter(i).state)
         ELSE ChangesUpTo(i - 1)

RECURSIVE Trailing(_, _)
Trailing(fs, b) ==
    IF fs = <<>> \/ fs[Len(fs)] # b THEN 0
    ELSE 1 + Trailing(SubSeq(fs, 1, Len(fs) - 1), b)

\* C37: a frame takes the detector to SPEAKING only when the unbroken run
\* of speaking frames it ends lasts at least min_speech, and to QUIET only
\* when the unbroken run of non-speaking frames it ends lasts at least
\* min_silence.
C37_UnbrokenRunsBeforeChange ==
    [][/\ (vad.state # "SPEAKING" /\ vad'.state = "SPEAKING")
            => Trailing(frames', TRUE) * FrameDur >= vcfg.minSpeech
       /\ (vad.state # "QUIET" /\ vad'.state = "QUIET")
            => Trailing(frames', FALSE) * FrameDur >= vcfg.minSilence]_vars

=============================================================================
